---------------------------- MODULE Spec2Model ----------------------------
(***************************************************************************)
(* Model of the property-comparison pipeline of src/agents.py:             *)
(* process_property_url (crawl, format, parse, regex fallback) and         *)
(* find_comparable_properties (search, self-exclusion, link rewriting,     *)
(* per-candidate follow-up, derivations, retention).                       *)
(*                                                                         *)
(* Python text is a sequence of one-character strings.  A Python value is  *)
(* a node [k, s, n, e]: k its type, s its text (str), n its number (int),  *)
(* e its children (list elements, dict entries; an entry is a node of kind *)
(* "entry" whose s is the key and whose e is <<value>>).                   *)
(***************************************************************************)
EXTENDS Integers, Sequences, FiniteSets, TLC

(***************************************************************************)
(* Bounds of the model.                                                    *)
(***************************************************************************)
\* generated crawl texts are concatenations of at most MaxSegs segments
MaxSegs == 2
\* the search backend returns at most MaxCandidates candidates
MaxCandidates == 2

(***************************************************************************)
(* Text primitives.                                                        *)
(***************************************************************************)
WS == {" ", "\n", "\t", "\r"}
Digit == {"0", "1", "2", "3", "4", "5", "6", "7", "8", "9"}
Quote == {"\"", "'"}

\* the grave accent U+0060 (the fence character), which a string literal
\* of this language cannot hold: one element of a text, like any character
Bt == "GRAVE"

Min(S) == CHOOSE x \in S : \A y \in S : x <= y

\* s[i .. i+Len(lit)-1] = lit
HasAt(s, i, lit) ==
  /\ i >= 1
  /\ i + Len(lit) - 1 <= Len(s)
  /\ SubSeq(s, i, i + Len(lit) - 1) = lit

\* `lit in s`
Contains(s, lit) == \E i \in 1..(Len(s) + 1) : HasAt(s, i, lit)

\* s.find(lit, from): the first index >= from where lit occurs, 0 when none
Find(s, lit, from) ==
  LET I == {i \in from..(Len(s) + 1) : HasAt(s, i, lit)}
  IN  IF I = {} THEN 0 ELSE Min(I)

\* the first index >= i whose character is not in S (Len(s)+1 when none)
RECURSIVE SkipWhile(_, _, _)
SkipWhile(s, i, S) ==
  IF i <= Len(s) /\ s[i] \in S THEN SkipWhile(s, i + 1, S) ELSE i

\* the first index >= i whose character is in S (Len(s)+1 when none)
RECURSIVE SkipUntil(_, _, _)
SkipUntil(s, i, S) ==
  IF i <= Len(s) /\ s[i] \notin S THEN SkipUntil(s, i + 1, S) ELSE i

\* the last index <= i whose character is not in S (0 when none)
RECURSIVE BackWhile(_, _, _)
BackWhile(s, i, S) ==
  IF i >= 1 /\ s[i] \in S THEN BackWhile(s, i - 1, S) ELSE i

\* str.strip()
Strip(s) ==
  LET a == SkipWhile(s, 1, WS)
      b == BackWhile(s, Len(s), WS)
  IN  IF a > b THEN <<>> ELSE SubSeq(s, a, b)

\* s.split(sep)[0]
SplitFirst(s, sep) ==
  LET p == Find(s, sep, 1)
  IN  IF p = 0 THEN s ELSE SubSeq(s, 1, p - 1)

\* s.split(sep)[1], for s that contains sep
SplitSecond(s, sep) ==
  LET p == Find(s, sep, 1)
      rest == SubSeq(s, p + Len(sep), Len(s))
  IN  SplitFirst(rest, sep)

\* s.replace(old, new), leftmost non-overlapping occurrences
RECURSIVE Replace(_, _, _)
Replace(s, old, new) ==
  LET p == Find(s, old, 1)
  IN  IF p = 0 THEN s
      ELSE SubSeq(s, 1, p - 1) \o new
             \o Replace(SubSeq(s, p + Len(old), Len(s)), old, new)

DigitVal(c) ==
  CASE c = "0" -> 0 [] c = "1" -> 1 [] c = "2" -> 2 [] c = "3" -> 3
    [] c = "4" -> 4 [] c = "5" -> 5 [] c = "6" -> 6 [] c = "7" -> 7
    [] c = "8" -> 8 [] c = "9" -> 9

\* the number a run of decimal digits writes
RECURSIVE NatOf(_)
NatOf(ds) ==
  IF ds = <<>> THEN 0
  ELSE 10 * NatOf(SubSeq(ds, 1, Len(ds) - 1)) + DigitVal(ds[Len(ds)])

(***************************************************************************)
(* Python values.                                                          *)
(***************************************************************************)
Node(kind, text, num, kids) == [k |-> kind, s |-> text, n |-> num, e |-> kids]

PyNone == Node("none", <<>>, 0, <<>>)
\* an object without the attribute that was asked for
PyAbsent == Node("absent", <<>>, 0, <<>>)
PyStr(cs) == Node("str", cs, 0, <<>>)
PyInt(i) == Node("int", <<>>, i, <<>>)
PyBool(b) == Node("bool", <<>>, IF b THEN 1 ELSE 0, <<>>)
PyList(xs) == Node("list", <<>>, 0, xs)
PyDict(es) == Node("dict", <<>>, 0, es)
Entry(key, val) == Node("entry", key, 0, <<val>>)

\* key in d
HasKey(d, key) == \E i \in 1..Len(d.e) : d.e[i].s = key

\* d.get(key): None when the key is absent
DictGet(d, key) ==
  IF HasKey(d, key)
  THEN d.e[CHOOSE i \in 1..Len(d.e) : d.e[i].s = key].e[1]
  ELSE PyNone

\* d.get(key, default)
DictGetOr(d, key, default) == IF HasKey(d, key) THEN DictGet(d, key) ELSE default

\* d[key] = val: the key keeps its place, a new key goes last
DictSet(d, key, val) ==
  IF HasKey(d, key)
  THEN PyDict([i \in 1..Len(d.e) |->
                 IF d.e[i].s = key THEN Entry(key, val) ELSE d.e[i]])
  ELSE PyDict(Append(d.e, Entry(key, val)))

\* bool(v)
Truthy(v) ==
  CASE v.k = "none" -> FALSE
    [] v.k = "absent" -> FALSE
    [] v.k = "str" -> v.s # <<>>
    [] v.k \in {"int", "bool"} -> v.n # 0
    [] v.k \in {"list", "dict"} -> v.e # <<>>
    [] OTHER -> TRUE

(***************************************************************************)
(* json.loads, for the JSON of the model's texts: objects, arrays, strings *)
(* without escapes, integers and the three literals, with JSON white space *)
(* between tokens.  (Fractions, exponents, backslash escapes and the       *)
(* NaN/Infinity literals are not decoded here; no input text holds one.)   *)
(* A parse result is [ok, v, i]: whether a value was read, the value, and  *)
(* the index after it.                                                     *)
(***************************************************************************)
JFail == [ok |-> FALSE, v |-> PyNone, i |-> 0]
JOk(val, next) == [ok |-> TRUE, v |-> val, i |-> next]

\* a string token whose opening quote is at j
JString(s, j) ==
  LET q == SkipUntil(s, j + 1, {"\"", "\\", "\n", "\t", "\r"})
  IN  IF q <= Len(s) /\ s[q] = "\""
      THEN JOk(PyStr(SubSeq(s, j + 1, q - 1)), q + 1)
      ELSE JFail

\* an integer token starting at j: -?(0|[1-9][0-9]*)
JNumber(s, j) ==
  LET neg == s[j] = "-"
      a == IF neg THEN j + 1 ELSE j
      b == IF a <= Len(s) /\ s[a] = "0" THEN a + 1 ELSE SkipWhile(s, a, Digit)
  IN  IF b = a THEN JFail
      ELSE JOk(PyInt((IF neg THEN -1 ELSE 1) * NatOf(SubSeq(s, a, b - 1))), b)

RECURSIVE JValue(_, _), JMembers(_, _, _), JElements(_, _, _)
\* a value, after optional white space, starting at or after i
JValue(s, i) ==
  LET j == SkipWhile(s, i, WS)
  IN  IF j > Len(s) THEN JFail
      ELSE CASE s[j] = "{" ->
                  LET m == SkipWhile(s, j + 1, WS)
                  IN  IF m <= Len(s) /\ s[m] = "}"
                      THEN JOk(PyDict(<<>>), m + 1)
                      ELSE JMembers(s, m, PyDict(<<>>))
             [] s[j] = "[" ->
                  LET m == SkipWhile(s, j + 1, WS)
                  IN  IF m <= Len(s) /\ s[m] = "]"
                      THEN JOk(PyList(<<>>), m + 1)
                      ELSE JElements(s, m, <<>>)
             [] s[j] = "\"" -> JString(s, j)
             [] s[j] \in Digit \cup {"-"} -> JNumber(s, j)
             [] HasAt(s, j, <<"n", "u", "l", "l">>) -> JOk(PyNone, j + 4)
             [] HasAt(s, j, <<"t", "r", "u", "e">>) -> JOk(PyBool(TRUE), j + 4)
             [] HasAt(s, j, <<"f", "a", "l", "s", "e">>) -> JOk(PyBool(FALSE), j + 5)
             [] OTHER -> JFail

\* the members of an object from the key at i on, up to the closing brace
JMembers(s, i, acc) ==
  IF ~(i <= Len(s) /\ s[i] = "\"") THEN JFail
  ELSE LET key == JString(s, i)
           c == SkipWhile(s, key.i, WS)
       IN  IF ~key.ok \/ ~(c <= Len(s) /\ s[c] = ":") THEN JFail
           ELSE LET val == JValue(s, c + 1)
                    m == SkipWhile(s, val.i, WS)
                    acc2 == DictSet(acc, key.v.s, val.v)
                IN  IF ~val.ok \/ m > Len(s) THEN JFail
                    ELSE IF s[m] = "}" THEN JOk(acc2, m + 1)
                    ELSE IF s[m] = ","
                         THEN JMembers(s, SkipWhile(s, m + 1, WS), acc2)
                    ELSE JFail

\* the elements of an array from the value at i on, up to the closing bracket
JElements(s, i, acc) ==
  LET val == JValue(s, i)
      m == SkipWhile(s, val.i, WS)
  IN  IF ~val.ok \/ m > Len(s) THEN JFail
      ELSE IF s[m] = "]" THEN JOk(PyList(Append(acc, val.v)), m + 1)
      ELSE IF s[m] = "," THEN JElements(s, m + 1, Append(acc, val.v))
      ELSE JFail

\* json.loads(s): ok is FALSE where it raises JSONDecodeError
json_loads(s) ==
  LET r == JValue(s, 1)
  IN  IF r.ok /\ SkipWhile(s, r.i, WS) = Len(s) + 1
      THEN [ok |-> TRUE, v |-> r.v]
      ELSE [ok |-> FALSE, v |-> PyNone]

(***************************************************************************)
(* The regular expressions of the regex fallback (agents.py:132-148).      *)
(* A match is [ok, a, b, ca, cb]: the matched text is s[a..b] (group 0)    *)
(* and the captured text s[ca..cb] (group 1).  XAt(s, i) is the match that *)
(* starts at index i; re.search takes the leftmost start.  In each pattern *)
(* the greedy choice is the only one that can match (what follows a        *)
(* repetition or an option never begins with a character the repetition    *)
(* or option accepts), so no backtracking is needed.                       *)
(***************************************************************************)
NoMatch == [ok |-> FALSE, a |-> 0, b |-> 0, ca |-> 0, cb |-> 0]
Match(a0, b0, c0, d0) == [ok |-> TRUE, a |-> a0, b |-> b0, ca |-> c0, cb |-> d0]

\* m.group(0), m.group(1)
Group0(s, m) == SubSeq(s, m.a, m.b)
Group1(s, m) == SubSeq(s, m.ca, m.cb)

\* the index after an optional quote at i:  ["\']?
OptQuote(s, i) == IF i <= Len(s) /\ s[i] \in Quote THEN i + 1 ELSE i

\* the index after an optional literal at i:  (?:lit)?
OptLit(s, i, lit) == IF HasAt(s, i, lit) THEN i + Len(lit) ELSE i

\* key["\']?:\s*["\']([^"\']+)  starting at i, key a literal
KeyStrAt(s, i, key) ==
  IF ~HasAt(s, i, key) THEN NoMatch
  ELSE LET c == OptQuote(s, i + Len(key))
       IN  IF ~(c <= Len(s) /\ s[c] = ":") THEN NoMatch
           ELSE LET q == SkipWhile(s, c + 1, WS)
                    e == SkipUntil(s, q + 1, Quote)
                IN  IF q <= Len(s) /\ s[q] \in Quote /\ e > q + 1
                    THEN Match(i, e - 1, q + 1, e - 1)
                    ELSE NoMatch

\* ["\']?:\s*(\d+)  starting at c, for a pattern that began at i
KeyNumTail(s, i, c0) ==
  LET c == OptQuote(s, c0)
  IN  IF ~(c <= Len(s) /\ s[c] = ":") THEN NoMatch
      ELSE LET d == SkipWhile(s, c + 1, WS)
               e == SkipWhile(s, d, Digit)
           IN  IF e > d THEN Match(i, e - 1, d, e - 1) ELSE NoMatch

\* (\d+)\s*  starting at i, then one of the literals of `tails`
NumThenAt(s, i, tails) ==
  LET d == SkipWhile(s, i, Digit)
      w == SkipWhile(s, d, WS)
      T == {t \in tails : HasAt(s, w, t)}
  IN  IF d > i /\ T # {}
      THEN Match(i, w + Len(CHOOSE t \in T : TRUE) - 1, i, d - 1)
      ELSE NoMatch

\* r'# ([^\n]+)'
TitleH1At(s, i) ==
  LET e == SkipUntil(s, i + 2, {"\n"})
  IN  IF HasAt(s, i, <<"#", " ">>) /\ e > i + 2
      THEN Match(i, e - 1, i + 2, e - 1)
      ELSE NoMatch

\* r'title["\']?:\s*["\']([^"\']+)'
TitleKeyAt(s, i) == KeyStrAt(s, i, <<"t", "i", "t", "l", "e">>)

\* r'location["\']?:\s*["\']([^"\']+)'
LocationKeyAt(s, i) == KeyStrAt(s, i, <<"l", "o", "c", "a", "t", "i", "o", "n">>)

\* r'address["\']?:\s*["\']([^"\']+)'
AddressKeyAt(s, i) == KeyStrAt(s, i, <<"a", "d", "d", "r", "e", "s", "s">>)

\* r'RM\s*[\d,]+(\s*/\s*mo)?'
PriceRMAt(s, i) ==
  LET d == SkipWhile(s, i + 2, WS)
      e == SkipWhile(s, d, Digit \cup {","})
      sl == SkipWhile(s, e, WS)
      mo == SkipWhile(s, sl + 1, WS)
  IN  IF ~(HasAt(s, i, <<"R", "M">>) /\ e > d) THEN NoMatch
      ELSE IF sl <= Len(s) /\ s[sl] = "/" /\ HasAt(s, mo, <<"m", "o">>)
           THEN Match(i, mo + 1, e, mo + 1)
           ELSE Match(i, e - 1, 0, 0)

\* r'price["\']?:\s*["\']([^"\']+)'
PriceKeyAt(s, i) == KeyStrAt(s, i, <<"p", "r", "i", "c", "e">>)

\* r'(\d+)\s*Beds'
BedsNumAt(s, i) == NumThenAt(s, i, {<<"B", "e", "d", "s">>})

\* r'bed(?:room)?s?["\']?:\s*(\d+)'
BedsKeyAt(s, i) ==
  IF ~HasAt(s, i, <<"b", "e", "d">>) THEN NoMatch
  ELSE KeyNumTail(s, i, OptLit(s, OptLit(s, i + 3, <<"r", "o", "o", "m">>), <<"s">>))

\* r'(\d+)\s*Baths'
BathsNumAt(s, i) == NumThenAt(s, i, {<<"B", "a", "t", "h", "s">>})

\* r'bath(?:room)?s?["\']?:\s*(\d+)'
BathsKeyAt(s, i) ==
  IF ~HasAt(s, i, <<"b", "a", "t", "h">>) THEN NoMatch
  ELSE KeyNumTail(s, i, OptLit(s, OptLit(s, i + 4, <<"r", "o", "o", "m">>), <<"s">>))

\* r'(\d+)\s*sq(?:ft|\.ft\.)'
SizeNumAt(s, i) ==
  NumThenAt(s, i, {<<"s", "q", "f", "t">>, <<"s", "q", ".", "f", "t", ".">>})

\* r'size["\']?:\s*(\d+)'
SizeKeyAt(s, i) ==
  IF ~HasAt(s, i, <<"s", "i", "z", "e">>) THEN NoMatch
  ELSE KeyNumTail(s, i, i + 4)

\* agents.py:339  r'(\d+)': a run of digits
FirstDigitsAt(s, i) ==
  LET e == SkipWhile(s, i, Digit)
  IN  IF e > i THEN Match(i, e - 1, i, e - 1) ELSE NoMatch

\* the match of a pattern, named by its operator, that begins at index i
PatternAt(pattern, s, i) ==
  CASE pattern = "TitleH1At" -> TitleH1At(s, i)
    [] pattern = "TitleKeyAt" -> TitleKeyAt(s, i)
    [] pattern = "LocationKeyAt" -> LocationKeyAt(s, i)
    [] pattern = "AddressKeyAt" -> AddressKeyAt(s, i)
    [] pattern = "PriceRMAt" -> PriceRMAt(s, i)
    [] pattern = "PriceKeyAt" -> PriceKeyAt(s, i)
    [] pattern = "BedsNumAt" -> BedsNumAt(s, i)
    [] pattern = "BedsKeyAt" -> BedsKeyAt(s, i)
    [] pattern = "BathsNumAt" -> BathsNumAt(s, i)
    [] pattern = "BathsKeyAt" -> BathsKeyAt(s, i)
    [] pattern = "SizeNumAt" -> SizeNumAt(s, i)
    [] pattern = "SizeKeyAt" -> SizeKeyAt(s, i)
    [] pattern = "FirstDigitsAt" -> FirstDigitsAt(s, i)

\* re.search(pattern, s): the match at the least index where one begins
Search(pattern, s) ==
  LET I == {i \in 1..Len(s) : PatternAt(pattern, s, i).ok}
  IN  IF I = {} THEN NoMatch ELSE PatternAt(pattern, s, Min(I))

(***************************************************************************)
(* process_property_url (agents.py:73-180).                                *)
(***************************************************************************)
\* keys of the records
Key ==
  [ title |->
      <<"t", "i", "t", "l", "e">>,
    location |->
      <<"l", "o", "c", "a", "t", "i", "o", "n">>,
    price |->
      <<"p", "r", "i", "c", "e">>,
    details |->
      <<"d", "e", "t", "a", "i", "l", "s">>,
    beds |->
      <<"b", "e", "d", "s">>,
    baths |->
      <<"b", "a", "t", "h", "s">>,
    sqft |->
      <<"s", "q", "f", "t">>,
    property_type |->
      <<"p", "r", "o", "p", "e", "r", "t", "y", "_", "t", "y", "p", "e">>,
    facilities |->
      <<"f", "a", "c", "i", "l", "i", "t", "i", "e", "s">>,
    amenities |->
      <<"a", "m", "e", "n", "i", "t", "i", "e", "s">>,
    listing_url |->
      <<"l", "i", "s", "t", "i", "n", "g", "_", "u", "r", "l">>,
    error |->
      <<"e", "r", "r", "o", "r">>,
    link |->
      <<"l", "i", "n", "k">>,
    size |->
      <<"s", "i", "z", "e">>,
    price_numeric |->
      <<"p", "r", "i", "c", "e", "_", "n", "u", "m", "e", "r", "i", "c">>,
    price_per_sqft |->
      <<"p", "r", "i", "c", "e", "_", "p", "e", "r", "_", "s", "q", "f", "t">>,
    bedrooms |->
      <<"b", "e", "d", "r", "o", "o", "m", "s">>,
    tenure |->
      <<"t", "e", "n", "u", "r", "e">>,
    listing_type |->
      <<"l", "i", "s", "t", "i", "n", "g", "_", "t", "y", "p", "e">>,
    properties |->
      <<"p", "r", "o", "p", "e", "r", "t", "i", "e", "s">>,
    purpose |->
      <<"p", "u", "r", "p", "o", "s", "e">>,
    budget_range |->
      <<"b", "u", "d", "g", "e", "t", "_", "r", "a", "n", "g", "e">>,
    min |->
      <<"m", "i", "n">>,
    max |->
      <<"m", "a", "x">> ]

\* text literals of the code
Lit ==
   \* the literals of the returned records
  [ PropertyDetails |->
      <<"P", "r", "o", "p", "e", "r", "t", "y", " ", "D", "e", "t", "a", "i", "l", "s">>,
    NotSpecified |->
      <<"N", "o", "t", " ", "s", "p", "e", "c", "i", "f", "i", "e", "d">>,
    NotAvailable |->
      <<"N", "o", "t", " ", "a", "v", "a", "i", "l", "a", "b", "l", "e">>,
    NA |->
      <<"N", "/", "A">>,
    ErrorPrefix |->
      <<"E", "r", "r", "o", "r", ":", " ">>,
    None |->
      <<"N", "o", "n", "e">>,
   \* the fence marker and the fence of the format result
    FenceJson |->
      <<Bt, Bt, Bt, "j", "s", "o", "n">>,
    Fence |->
      <<Bt, Bt, Bt>>,
   \* str(e) of the AttributeError of reading a missing content attribute
    NoContent |->
      <<"n", "o", " ", "a", "t", "t", "r", "i", "b", "u", "t", "e", " ", "c", "o", "n", "t", "e", "n", "t">>,
    Empty |->
      <<>>,
    http |->
      <<"h", "t", "t", "p">>,
    iproperty |->
      <<"i", "p", "r", "o", "p", "e", "r", "t", "y">>,
    propertyguru |->
      <<"p", "r", "o", "p", "e", "r", "t", "y", "g", "u", "r", "u">>,
    HostIProperty |->
      <<"h", "t", "t", "p", "s", ":", "/", "/", "w", "w", "w", ".", "i", "p", "r", "o", "p", "e", "r", "t", "y", ".", "c", "o", "m", ".", "m", "y">>,
    HostPropertyGuru |->
      <<"h", "t", "t", "p", "s", ":", "/", "/", "w", "w", "w", ".", "p", "r", "o", "p", "e", "r", "t", "y", "g", "u", "r", "u", ".", "c", "o", "m", ".", "m", "y">>,
    RM |->
      <<"R", "M">>,
    Comma |->
      <<",">>,
    PerMo |->
      <<"/", "m", "o">>,
    rent |->
      <<"r", "e", "n", "t">>,
    per_month |->
      <<"p", "e", "r", " ", "m", "o", "n", "t", "h">>,
    ForRent |->
      <<"F", "o", "r", " ", "R", "e", "n", "t">>,
    ForSale |->
      <<"F", "o", "r", " ", "S", "a", "l", "e">>,
    InfoNotAvailable |->
      <<"I", "n", "f", "o", "r", "m", "a", "t", "i", "o", "n", " ", "n", "o", "t", " ", "a", "v", "a", "i", "l", "a", "b", "l", "e">>,
    KualaLumpur |->
      <<"K", "u", "a", "l", "a", " ", "L", "u", "m", "p", "u", "r">>,
    UnknownProperty |->
      <<"U", "n", "k", "n", "o", "w", "n", " ", "P", "r", "o", "p", "e", "r", "t", "y">>,
    PrefsNotSpecified |->
      <<"N", "o", "t", " ", "s", "p", "e", "c", "i", "f", "i", "e", "d">>,
    Sorry |->
      <<"S", "o", "r", "r", "y">>,
    FencedBad |->
      <<Bt, Bt, Bt, "j", "s", "o", "n">> \o <<"[", "{">> \o <<Bt, Bt, Bt>>,
   \* str(e) of an AttributeError or TypeError raised by the loop
    TypeError |->
      <<"t", "y", "p", "e", " ", "e", "r", "r", "o", "r">>,
   \* agents.py:552: the narrative returned for a response without content
    CouldNotGenerate |->
      <<"C", "o", "u", "l", "d", " ", "n", "o", "t", " ", "g", "e", "n", "e", "r", "a", "t", "e", " ", "a", " ", "r", "e", "c", "o", "m", "m", "e", "n", "d", "a", "t", "i", "o", "n", ".">> ]

\* the character ceiling of the crawl content
MaxContentLen == 200000

\* str(v), for the values a crawl response's content takes here
PyStrOf(v) == IF v.k = "str" THEN v.s ELSE Lit.None

\* the crawl content passed on whole
Truncate_Never(content) == content

\* agents.py:89-92: the crawl content cut to the ceiling when it is a string
Truncate(content) ==
  IF content.k = "str" /\ Len(content.s) > MaxContentLen
  THEN PyStr(SubSeq(content.s, 1, MaxContentLen))
  ELSE content

\* a text of n characters none of the patterns matches
Padding(n) == [i \in 1..n |-> "x"]

\* A string value as the state holds it.  A text that reaches the ceiling
\* is written shorter: the length of its leading run of the padding
\* character is counted in the field n, and s holds what follows the run.
\* Every other value is held as it is.  Loaded gives the value back.
Stored(v) ==
  IF v.k = "str" /\ Len(v.s) >= MaxContentLen
  THEN LET D == {i \in 1..Len(v.s) : v.s[i] # "x"}
           run == IF D = {} THEN Len(v.s) ELSE Min(D) - 1
       IN  Node("str", SubSeq(v.s, run + 1, Len(v.s)), run, <<>>)
  ELSE v

Loaded(v) == IF v.k = "str" /\ v.n > 0 THEN PyStr(Padding(v.n) \o v.s) ELSE v

\* pat1 or pat2:  re.search(p1, s) or re.search(p2, s)
SearchOr(pattern1, pattern2, s) ==
  LET m == Search(pattern1, s) IN IF m.ok THEN m ELSE Search(pattern2, s)

title_of(raw_text) ==
  LET m == SearchOr("TitleH1At", "TitleKeyAt", raw_text)
  IN  IF m.ok THEN Group1(raw_text, m) ELSE Lit.PropertyDetails

location_of(raw_text) ==
  LET m == SearchOr("LocationKeyAt", "AddressKeyAt", raw_text)
  IN  IF m.ok THEN Group1(raw_text, m) ELSE Lit.NotSpecified

price_of(raw_text) ==
  LET m == SearchOr("PriceRMAt", "PriceKeyAt", raw_text)
  IN  IF m.ok THEN Group0(raw_text, m) ELSE Lit.NotAvailable

beds_of(raw_text) ==
  LET m == SearchOr("BedsNumAt", "BedsKeyAt", raw_text)
  IN  IF m.ok THEN Group1(raw_text, m) ELSE Lit.NotAvailable

baths_of(raw_text) ==
  LET m == SearchOr("BathsNumAt", "BathsKeyAt", raw_text)
  IN  IF m.ok THEN Group1(raw_text, m) ELSE Lit.NotAvailable

size_of(raw_text) ==
  LET m == SearchOr("SizeNumAt", "SizeKeyAt", raw_text)
  IN  IF m.ok THEN Group1(raw_text, m) ELSE Lit.NotAvailable

\* the fallback scanning the format result instead of the crawl content
FallbackText_FromFormat(raw, formatted) == PyStrOf(formatted)

\* agents.py:129: the text the regex fallback scans: the crawl content
FallbackText(raw, formatted) == PyStrOf(raw)

\* agents.py:128-165: the record the regex fallback returns
RegexFallback(raw_text, u) ==
  PyDict(<<
    Entry(Key.title, PyStr(title_of(raw_text))),
    Entry(Key.location, PyStr(location_of(raw_text))),
    Entry(Key.price, PyStr(price_of(raw_text))),
    Entry(Key.details, PyDict(<<
      Entry(Key.beds, PyStr(beds_of(raw_text))),
      Entry(Key.baths, PyStr(baths_of(raw_text))),
      Entry(Key.sqft, PyStr(size_of(raw_text))) >>)),
    Entry(Key.property_type, PyStr(Lit.NotSpecified)),
    Entry(Key.facilities, PyList(<<>>)),
    Entry(Key.amenities, PyDict(<<>>)),
    Entry(Key.listing_url, PyStr(u)) >>)

\* agents.py:167-180: the record returned when an exception reaches the
\* outer handler; msg is str(e)
ErrorRecord(u, msg) ==
  PyDict(<<
    Entry(Key.title, PyStr(Lit.PropertyDetails)),
    Entry(Key.location, PyStr(Lit.NotAvailable)),
    Entry(Key.price, PyStr(Lit.NotAvailable)),
    Entry(Key.details, PyDict(<<
      Entry(Key.beds, PyStr(Lit.NA)),
      Entry(Key.baths, PyStr(Lit.NA)),
      Entry(Key.sqft, PyStr(Lit.NA)) >>)),
    Entry(Key.property_type, PyStr(Lit.NotSpecified)),
    Entry(Key.facilities, PyList(<<>>)),
    Entry(Key.amenities, PyDict(<<>>)),
    Entry(Key.listing_url, PyStr(u)),
    Entry(Key.error, PyStr(Lit.ErrorPrefix \o msg)) >>)

\* content.split("```json")[1].split("```")[0].strip()
FencedText(text) == Strip(SplitFirst(SplitSecond(text, Lit.FenceJson), Lit.Fence))

\* the parse trying the fenced block before the whole text
ParseFormatted_FenceFirst(content) ==
  IF content.k = "dict" THEN [ok |-> TRUE, v |-> content]
  ELSE IF content.k # "str" THEN [ok |-> FALSE, v |-> PyNone]
  ELSE LET fenced == IF Contains(content.s, Lit.FenceJson)
                     THEN json_loads(FencedText(content.s))
                     ELSE [ok |-> FALSE, v |-> PyNone]
       IN  IF fenced.ok THEN fenced ELSE json_loads(content.s)

\* agents.py:112-126: the value the parse of the format result returns;
\* ok is FALSE where control falls through to the regex fallback
ParseFormatted(content) ==
  IF content.k = "dict" THEN [ok |-> TRUE, v |-> content]
  ELSE IF content.k # "str" THEN [ok |-> FALSE, v |-> PyNone]
  ELSE LET direct == json_loads(content.s)
       IN  IF direct.ok THEN direct
           ELSE IF Contains(content.s, Lit.FenceJson)
                THEN json_loads(FencedText(content.s))
                ELSE [ok |-> FALSE, v |-> PyNone]

(***************************************************************************)
(* The inputs of process_property_url: the URL, and what the crawl and the *)
(* format backends answer (an exception with its message, or a response    *)
(* whose content is a value or is missing).                                *)
(***************************************************************************)
\* listing URLs
URL ==
  [ A |->
      <<"h", "t", "t", "p", "s", ":", "/", "/", "w", "w", "w", ".", "i", "p", "r", "o", "p", "e", "r", "t", "y", ".", "c", "o", "m", ".", "m", "y", "/", "p", "/", "1">>,
    B |->
      <<"u", "2">> ]

Urls == {URL.A, URL.B}

\* str(e) of the exceptions a backend call raises
ExcMessages == {<<>>, <<"t", "i", "m", "e", "o", "u", "t">>}

\* crawl contents
CT ==
  [ Lovely |->
      <<"#", " ", "L", "o", "v", "e", "l", "y", " ", "C", "o", "n", "d", "o", "\n", "l", "o", "c", "a", "t", "i", "o", "n", ":", " ", "B", "a", "n", "g", "s", "a", "r", "\n", "R", "M", " ", "6", "5", "0", ",", "0", "0", "0", "\n", "3", " ", "B", "e", "d", "s", "\n", "2", " ", "B", "a", "t", "h", "s", "\n", "1", "2", "0", "0", " ", "s", "q", "f", "t">>,
    Quoted |->
      <<"t", "i", "t", "l", "e", ":", " ", "\"", "S", "k", "y", " ", "V", "i", "l", "l", "a", "\"", "\n", "a", "d", "d", "r", "e", "s", "s", ":", " ", "\"", "C", "h", "e", "r", "a", "s", "\"", "\n", "p", "r", "i", "c", "e", ":", " ", "\"", "5", "0", "0", "\"", "\n", "b", "e", "d", "s", ":", " ", "4", "\n", "b", "a", "t", "h", "r", "o", "o", "m", "s", ":", " ", "2", "\n", "s", "i", "z", "e", ":", " ", "9", "0", "0">>,
    Rent |->
      <<"l", "o", "c", "a", "t", "i", "o", "n", "'", ":", " ", "'", "K", "L", "'", " ", "R", "M", "1", ",", "2", "0", "0", " ", "/", " ", "m", "o", " ", "2", "B", "e", "d", "s", " ", "1", " ", "B", "a", "t", "h", "s", " ", "8", "5", "0", " ", "s", "q", ".", "f", "t", ".">>,
    Prose |->
      <<"n", "o", " ", "d", "a", "t", "a", " ", "h", "e", "r", "e">>,
    JsonLike |->
      <<"{", "\"", "t", "i", "t", "l", "e", "\"", ":", "\"", "T", "1", "\"", ",", "\"", "l", "o", "c", "a", "t", "i", "o", "n", "\"", " ", ":", " ", "\"", "L", "1", "\"", ",", "\"", "p", "r", "i", "c", "e", "\"", ":", "\"", "R", "M", " ", "5", "\"", ",", "\"", "b", "e", "d", "r", "o", "o", "m", "s", "\"", ":", "3", ",", "\"", "b", "a", "t", "h", "\"", ":", "1", ",", "\"", "s", "i", "z", "e", "\"", ":", "\"", "7", "\"", "}">> ]

\* the pieces the generated crawl texts are put together from
Segments ==
  { <<"#", " ">>,
    <<"A">>,
    <<"\n">>,
    <<"R", "M">>,
    <<"1">>,
    <<"B", "e", "d", "s">>,
    <<"s", "q", "f", "t">>,
    <<"l", "o", "c", "a", "t", "i", "o", "n", ":", " ", "\"", "K", "L", "\"">> }

\* every concatenation of at most n segments
RECURSIVE TextsUpTo(_)
TextsUpTo(n) ==
  IF n = 0 THEN {<<>>}
  ELSE LET P == TextsUpTo(n - 1) IN P \cup {p \o g : p \in P, g \in Segments}

CrawlTexts ==
  {CT.Lovely, CT.Quoted, CT.Rent, CT.Prose, CT.JsonLike} \cup TextsUpTo(MaxSegs)

Raises(m) == [raises |-> TRUE, msg |-> m, content |-> PyAbsent]
Responds(c) == [raises |-> FALSE, msg |-> <<>>, content |-> c]

CrawlOutcomes ==
  {Raises(m) : m \in ExcMessages}
    \cup {Responds(PyStr(t)) : t \in CrawlTexts}
    \cup {Responds(PyNone), Responds(PyAbsent)}

\* format contents: texts
FT ==
  [ Complete |->
      <<"{", "\"", "t", "i", "t", "l", "e", "\"", ":", " ", "\"", "A", "\"", ",", " ", "\"", "l", "o", "c", "a", "t", "i", "o", "n", "\"", ":", " ", "\"", "K", "L", "\"", ",", " ", "\"", "p", "r", "i", "c", "e", "\"", ":", " ", "\"", "R", "M", " ", "1", "\"", ",", " ", "\"", "d", "e", "t", "a", "i", "l", "s", "\"", ":", " ", "{", "\"", "b", "e", "d", "s", "\"", ":", " ", "1", "}", ",", " ", "\"", "l", "i", "s", "t", "i", "n", "g", "_", "u", "r", "l", "\"", ":", " ", "\"", "u", "\"", "}">>,
    Partial |->
      <<"{", "\"", "t", "i", "t", "l", "e", "\"", ":", " ", "\"", "A", "\"", "}">>,
    NullTitle |->
      <<"{", "\"", "t", "i", "t", "l", "e", "\"", ":", " ", "n", "u", "l", "l", ",", " ", "\"", "l", "o", "c", "a", "t", "i", "o", "n", "\"", ":", " ", "\"", "K", "L", "\"", ",", " ", "\"", "p", "r", "i", "c", "e", "\"", ":", " ", "\"", "R", "M", " ", "1", "\"", ",", " ", "\"", "d", "e", "t", "a", "i", "l", "s", "\"", ":", " ", "{", "}", ",", " ", "\"", "l", "i", "s", "t", "i", "n", "g", "_", "u", "r", "l", "\"", ":", " ", "\"", "u", "\"", "}">>,
    List |->
      <<"[", "1", ",", " ", "2", "]">>,
    Null |->
      <<"n", "u", "l", "l">>,
    Prose |->
      <<"H", "e", "r", "e", " ", "y", "o", "u", " ", "g", "o">>,
    Empty |->
      <<>>,
    Fenced |->
      <<"H", "e", "r", "e", ":", "\n", Bt, Bt, Bt, "j", "s", "o", "n", "\n", "{", "\"", "t", "i", "t", "l", "e", "\"", ":", " ", "\"", "A", "\"", "}", "\n", Bt, Bt, Bt, "\n", "b", "y", "e">>,
    FencedBad |->
      <<Bt, Bt, Bt, "j", "s", "o", "n", "\n", "{", "\"", "t", "i", "t", "l", "e", "\"", ":", " ", "}", "\n", Bt, Bt, Bt>>,
    FencedOpen |->
      <<Bt, Bt, Bt, "j", "s", "o", "n", " ", "{", "\"", "t", "i", "t", "l", "e", "\"", ":", " ", "\"", "B", "\"", "}">>,
    PlainFence |->
      <<Bt, Bt, Bt, " ", "{", "\"", "a", "\"", ":", " ", "1", "}", " ", Bt, Bt, Bt>>,
    JsonWithFence |->
      <<"\"", Bt, Bt, Bt, "j", "s", "o", "n", " ", "1", " ", Bt, Bt, Bt, "\"">>,
    TwoFences |->
      <<Bt, Bt, Bt, "j", "s", "o", "n", "\n", "o", "o", "p", "s", "\n", Bt, Bt, Bt, " ", Bt, Bt, Bt, "j", "s", "o", "n", "\n", "{", "\"", "t", "i", "t", "l", "e", "\"", ":", " ", "\"", "A", "\"", "}", "\n", Bt, Bt, Bt>>,
    Lovely |->
      <<"#", " ", "L", "o", "v", "e", "l", "y", " ", "C", "o", "n", "d", "o", "\n", "l", "o", "c", "a", "t", "i", "o", "n", ":", " ", "B", "a", "n", "g", "s", "a", "r", "\n", "R", "M", " ", "6", "5", "0", ",", "0", "0", "0", "\n", "3", " ", "B", "e", "d", "s", "\n", "2", " ", "B", "a", "t", "h", "s", "\n", "1", "2", "0", "0", " ", "s", "q", "f", "t">>,
    OtherTitle |->
      <<"#", " ", "O", "t", "h", "e", "r", " ", "T", "i", "t", "l", "e", "\n", Bt, Bt, Bt, "j", "s", "o", "n", "\n", "{", "o", "o", "p", "s", "\n", Bt, Bt, Bt>> ]

FormatTexts ==
  {FT.Complete,
   FT.Partial,
   FT.NullTitle,
   FT.List,
   FT.Null,
   FT.Prose,
   FT.Empty,
   FT.Fenced,
   FT.FencedBad,
   FT.FencedOpen,
   FT.PlainFence,
   FT.JsonWithFence,
   FT.TwoFences,
   FT.Lovely,
   FT.OtherTitle}

\* format contents: structured values
FD ==
  [ Complete |->
      PyDict(<<Entry(<<"t", "i", "t", "l", "e">>, PyStr(<<"A">>)), Entry(<<"l", "o", "c", "a", "t", "i", "o", "n">>, PyStr(<<"K", "L">>)), Entry(<<"p", "r", "i", "c", "e">>, PyStr(<<"R", "M", " ", "1">>)), Entry(<<"d", "e", "t", "a", "i", "l", "s">>, PyDict(<<Entry(<<"b", "e", "d", "s">>, PyStr(<<"1">>)), Entry(<<"b", "a", "t", "h", "s">>, PyStr(<<"1">>)), Entry(<<"s", "q", "f", "t">>, PyStr(<<"9">>))>>)), Entry(<<"l", "i", "s", "t", "i", "n", "g", "_", "u", "r", "l">>, PyStr(<<"u">>))>>),
    Partial |->
      PyDict(<<Entry(<<"t", "i", "t", "l", "e">>, PyStr(<<"A">>)), Entry(<<"p", "r", "i", "c", "e">>, PyNone)>>) ]

FormatOutcomes ==
  {Raises(m) : m \in ExcMessages}
    \cup {Responds(PyStr(t)) : t \in FormatTexts}
    \cup {Responds(FD.Complete), Responds(FD.Partial), Responds(PyDict(<<>>)),
          Responds(PyList(<<>>)), Responds(PyNone), Responds(PyAbsent)}

\* crawl texts around the ceiling: a heading whose title text is the last
\* character, one character over the ceiling and exactly at it
LongCrawlTexts ==
  { Padding(MaxContentLen - 2) \o <<"#", " ", "T">>,
    Padding(MaxContentLen - 3) \o <<"#", " ", "T">> }

LongCrawlOutcomes ==
  {Raises(<<>>)}
    \cup {Responds(PyStr(t)) : t \in LongCrawlTexts}
    \cup {Responds(PyStr(CT.Lovely)), Responds(PyStr(CT.Quoted)),
          Responds(PyStr(CT.Rent)), Responds(PyStr(CT.Prose)),
          Responds(PyStr(<<>>)), Responds(PyNone), Responds(PyAbsent)}

FewFormatOutcomes ==
  {Raises(<<>>), Responds(FD.Complete), Responds(PyStr(FT.Prose)),
   Responds(PyStr(FT.Fenced)), Responds(PyStr(FT.Partial))}

(***************************************************************************)
(* process_property_url as a state machine.  ppu_pc is the position in the *)
(* function: "idle" (not called), "crawl", "format", "parse", "fallback",  *)
(* "done" (returned ppu_result) or "raised" (an exception left the         *)
(* function).  ppu_caught records the exception the outer handler caught.  *)
(* crawl_content is the content of the crawl response as the backend gave  *)
(* it; raw_response is the content after the truncation in place;          *)
(* format_prompt is the text the prompt embeds after "Raw data:", as a     *)
(* string value.  The three are held as Stored writes them.                *)
(***************************************************************************)
VARIABLES url, crawl_content, raw_response, format_prompt,
          formatted_response, ppu_pc, ppu_result, ppu_caught

ppu_vars == <<url, crawl_content, raw_response, format_prompt,
              formatted_response, ppu_pc, ppu_result, ppu_caught>>

VARIABLES reference_property, user_preferences, search_prompt,
          initial_response, candidates, properties_list,
          processed_properties, processed_src, details, followups,
          fcp_i, fcp_pc, fcp_result, fcp_caught

fcp_vars == <<reference_property, user_preferences, search_prompt,
              initial_response, candidates, properties_list,
              processed_properties, processed_src, details, followups,
              fcp_i, fcp_pc, fcp_result, fcp_caught>>

\* generate_final_recommendation: the three arguments, the prompt, the
\* backend's answer, the position, the returned value and the exception
\* that left the function
VARIABLES gfr_args, prompt, response, gfr_pc, gfr_result, gfr_raised

gfr_vars == <<gfr_args, prompt, response, gfr_pc, gfr_result, gfr_raised>>

\* the application: st.session_state, the pipeline calls made so far, and
\* the number of user actions so far
VARIABLES session_state, invocations, clicks

app_vars == <<session_state, invocations, clicks>>

vars == <<ppu_vars, fcp_vars, gfr_vars, app_vars>>

NoException == [raised |-> FALSE, msg |-> <<>>]
Exception(m) == [raised |-> TRUE, msg |-> m]

ppu_Init ==
  /\ url = <<>>
  /\ crawl_content = PyAbsent
  /\ raw_response = PyAbsent
  /\ format_prompt = PyStr(<<>>)
  /\ formatted_response = PyAbsent
  /\ ppu_pc = "idle"
  /\ ppu_result = PyAbsent
  /\ ppu_caught = NoException

\* the exception leaving the function instead of being handled
OuterHandler_Propagate(u, m) == [pc |-> "raised", result |-> PyAbsent]

\* agents.py:167-180: what an exception raised inside the outer try leads
\* to: the function returns the error record
OuterHandler(u, m) == [pc |-> "done", result |-> ErrorRecord(u, m)]

\* an exception with message m is raised inside the outer try
ppu_Raise(m) ==
  /\ ppu_caught' = Exception(m)
  /\ ppu_pc' = OuterHandler(url, m).pc
  /\ ppu_result' = OuterHandler(url, m).result

\* the call process_property_url(u, ...)
ppu_Call(u) ==
  /\ ppu_pc = "idle"
  /\ url' = u
  /\ ppu_pc' = "crawl"
  /\ UNCHANGED <<crawl_content, raw_response, format_prompt, formatted_response,
                 ppu_result, ppu_caught>>
  /\ UNCHANGED <<fcp_vars, gfr_vars, app_vars>>

\* agents.py:78-107: the agents are created, the crawl backend is called,
\* the content is truncated and embedded in the format prompt
ppu_CrawlGives(out) ==
  /\ ppu_pc = "crawl"
  /\ IF out.raises
     THEN /\ ppu_Raise(out.msg)
          /\ UNCHANGED <<url, crawl_content, raw_response, format_prompt, formatted_response>>
     ELSE IF out.content.k = "absent"
     THEN /\ ppu_Raise(Lit.NoContent)
          /\ raw_response' = out.content
          /\ UNCHANGED <<url, crawl_content, format_prompt, formatted_response>>
     ELSE /\ crawl_content' = Stored(out.content)
          /\ raw_response' = Stored(Truncate(out.content))
          /\ format_prompt' = Stored(PyStr(PyStrOf(Truncate(out.content))))
          /\ ppu_pc' = "format"
          /\ UNCHANGED <<url, formatted_response, ppu_result, ppu_caught>>
  /\ UNCHANGED <<fcp_vars, gfr_vars, app_vars>>

ppu_Crawl == \E out \in CrawlOutcomes : ppu_CrawlGives(out)

\* the same step, for the crawl contents around the character ceiling
ppu_CrawlLong == \E out \in LongCrawlOutcomes : ppu_CrawlGives(out)

\* agents.py:109: the format backend is called with the prompt
ppu_FormatGives(out) ==
  /\ ppu_pc = "format"
  /\ IF out.raises
     THEN /\ ppu_Raise(out.msg)
          /\ UNCHANGED <<url, crawl_content, raw_response, format_prompt, formatted_response>>
     ELSE /\ formatted_response' = out.content
          /\ ppu_pc' = "parse"
          /\ UNCHANGED <<url, crawl_content, raw_response, format_prompt, ppu_result, ppu_caught>>
  /\ UNCHANGED <<fcp_vars, gfr_vars, app_vars>>

ppu_Format == \E out \in FormatOutcomes : ppu_FormatGives(out)

\* the same step, for a few format results
ppu_FormatFew == \E out \in FewFormatOutcomes : ppu_FormatGives(out)

\* agents.py:111-126: the format result is parsed; a parsed value is
\* returned as it is, anything else leads to the regex fallback
ppu_Parse ==
  /\ ppu_pc = "parse"
  /\ \E parsed \in {ParseFormatted(formatted_response)} :
         IF parsed.ok
         THEN /\ ppu_result' = parsed.v
              /\ ppu_pc' = "done"
         ELSE /\ ppu_pc' = "fallback"
              /\ UNCHANGED ppu_result
  /\ UNCHANGED <<url, crawl_content, raw_response, format_prompt, formatted_response, ppu_caught>>
  /\ UNCHANGED <<fcp_vars, gfr_vars, app_vars>>

\* agents.py:128-165: the regex fallback over str(raw_response.content)
ppu_Fallback ==
  /\ ppu_pc = "fallback"
  /\ ppu_result' = RegexFallback(FallbackText(Loaded(raw_response), formatted_response), url)
  /\ ppu_pc' = "done"
  /\ UNCHANGED <<url, crawl_content, raw_response, format_prompt, formatted_response, ppu_caught>>
  /\ UNCHANGED <<fcp_vars, gfr_vars, app_vars>>

ppu_Next ==
  \/ \E u \in Urls : ppu_Call(u)
  \/ ppu_Crawl
  \/ ppu_Format
  \/ ppu_Parse
  \/ ppu_Fallback

(***************************************************************************)
(* find_comparable_properties (agents.py:183-407): conversions.            *)
(***************************************************************************)

\* the number of listings the search prompt asks for (agents.py:253)
SearchCount == 2

Upper == <<"A", "B", "C", "D", "E", "F", "G", "H", "I", "J", "K", "L", "M",
           "N", "O", "P", "Q", "R", "S", "T", "U", "V", "W", "X", "Y", "Z">>
Lowercase == <<"a", "b", "c", "d", "e", "f", "g", "h", "i", "j", "k", "l", "m",
           "n", "o", "p", "q", "r", "s", "t", "u", "v", "w", "x", "y", "z">>

\* str.lower()
LowerChar(c) ==
  IF \E i \in 1..26 : Upper[i] = c
  THEN Lowercase[CHOOSE i \in 1..26 : Upper[i] = c]
  ELSE c
Lower(s) == [i \in 1..Len(s) |-> LowerChar(s[i])]

\* the integer a text  \s*[+-]?[0-9]+\s*  writes; ok is FALSE for any other
\* text (ValueError)
NumOfText(s) ==
  LET t == Strip(s)
      signed == t # <<>> /\ t[1] \in {"+", "-"}
      ds == IF signed THEN SubSeq(t, 2, Len(t)) ELSE t
  IN  IF ds # <<>> /\ \A i \in 1..Len(ds) : ds[i] \in Digit
      THEN [ok |-> TRUE, n |-> (IF signed /\ t[1] = "-" THEN -1 ELSE 1) * NatOf(ds)]
      ELSE [ok |-> FALSE, n |-> 0]

\* int(v), and float(v) for the integral values of the model: ok is FALSE
\* where Python raises ValueError or TypeError
NumOf(v) ==
  CASE v.k \in {"int", "bool"} -> [ok |-> TRUE, n |-> v.n]
    [] v.k = "str" -> NumOfText(v.s)
    [] OTHER -> [ok |-> FALSE, n |-> 0]

Abs(x) == IF x < 0 THEN -x ELSE x

\* round(a / b) for integers a and b # 0: to the nearest integer, a tie to
\* the even one
RoundDiv(a, b) ==
  LET sign == IF (a < 0) = (b < 0) THEN 1 ELSE -1
      q == Abs(a) \div Abs(b)
      r == Abs(a) % Abs(b)
  IN  sign * (IF 2 * r < Abs(b) THEN q
              ELSE IF 2 * r > Abs(b) THEN q + 1
              ELSE IF q % 2 = 0 THEN q ELSE q + 1)

\* a value is a number the / operator accepts
IsNum(v) == v.k \in {"int", "bool"}

(***************************************************************************)
(* find_comparable_properties: the steps of the loop body.  A step result  *)
(* carries raised = TRUE where the step raises an exception that is not    *)
(* caught inside the step.                                                 *)
(***************************************************************************)
\* agents.py:265-282: properties_list from the search response content;
\* raised where json.loads of the fenced text raises
ParseSearch(content) ==
  LET none == [raised |-> FALSE, list |-> PyList(<<>>)]
      FromValue(v) ==
        IF v.k = "list" THEN [raised |-> FALSE, list |-> v]
        ELSE IF v.k = "dict" /\ HasKey(v, Key.properties)
             THEN [raised |-> FALSE, list |-> DictGet(v, Key.properties)]
             ELSE none
  IN  CASE content.k \in {"list", "dict"} -> FromValue(content)
        [] content.k = "str" ->
             IF Contains(content.s, Lit.FenceJson)
             THEN LET r == json_loads(FencedText(content.s))
                  IN  IF r.ok THEN FromValue(r.v)
                      ELSE [raised |-> TRUE, list |-> PyList(<<>>)]
             ELSE none
        [] OTHER -> none

\* agents.py:289: the candidate is the reference (same link or same title)
IsReference(item, reference_url, reference_title) ==
  \/ DictGet(item, Key.link) = reference_url
  \/ DictGet(item, Key.title) = reference_title

\* agents.py:293-297: a relative link is rewritten against the host its own
\* text names; raised where the link is a truthy value without startswith
RewriteLink(item) ==
  LET link == DictGet(item, Key.link)
  IN  IF ~Truthy(link) THEN [raised |-> FALSE, item |-> item]
      ELSE IF link.k # "str" THEN [raised |-> TRUE, item |-> item]
      ELSE IF HasAt(link.s, 1, Lit.http) THEN [raised |-> FALSE, item |-> item]
      ELSE IF Contains(link.s, Lit.iproperty)
           THEN [raised |-> FALSE,
                 item |-> DictSet(item, Key.link, PyStr(Lit.HostIProperty \o link.s))]
      ELSE IF Contains(link.s, Lit.propertyguru)
           THEN [raised |-> FALSE,
                 item |-> DictSet(item, Key.link, PyStr(Lit.HostPropertyGuru \o link.s))]
      ELSE [raised |-> FALSE, item |-> item]

\* agents.py:333-341: size from the follow-up details
UpdateSize(item, d) ==
  LET v == DictGet(d, Key.size)
      n == NumOf(v)
      m == IF v.k = "str" THEN Search("FirstDigitsAt", v.s) ELSE NoMatch
  IN  IF ~Truthy(v) THEN item
      ELSE IF n.ok THEN DictSet(item, Key.size, PyInt(n.n))
      ELSE IF m.ok THEN DictSet(item, Key.size, PyInt(NatOf(Group1(v.s, m))))
      ELSE item

\* agents.py:343-350: price_numeric from the follow-up details
UpdatePrice(item, d) ==
  LET v == DictGet(d, Key.price)
      price_val == IF v.k = "str"
                   THEN PyStr(Strip(Replace(Replace(v.s, Lit.RM, <<>>), Lit.Comma, <<>>)))
                   ELSE v
      n == NumOf(price_val)
  IN  IF Truthy(v) /\ n.ok THEN DictSet(item, Key.price_numeric, PyInt(n.n)) ELSE item

\* agents.py:353-363: a follow-up field that is set replaces the candidate's
CopyIfSet(item, d, key) ==
  IF Truthy(DictGet(d, key)) THEN DictSet(item, key, DictGet(d, key)) ELSE item

CopyFacilities(item, d) ==
  IF Truthy(DictGet(d, Key.facilities)) /\ DictGet(d, Key.facilities).k = "list"
  THEN DictSet(item, Key.facilities, DictGet(d, Key.facilities))
  ELSE item

\* agents.py:365-367: price per square foot from size and price_numeric;
\* the division of a value that is no number raises inside the inner try,
\* and nothing is set
SetPricePerSqft(item) ==
  LET size == DictGet(item, Key.size)
      pn == DictGet(item, Key.price_numeric)
  IN  IF Truthy(size) /\ Truthy(pn) /\ IsNum(size) /\ IsNum(pn)
      THEN DictSet(item, Key.price_per_sqft, PyInt(RoundDiv(pn.n, size.n)))
      ELSE item

\* agents.py:333-367 with details a mapping
UpdateFromDetails(item, d) ==
  SetPricePerSqft(
    CopyFacilities(
      CopyIfSet(
        CopyIfSet(
          CopyIfSet(UpdatePrice(UpdateSize(item, d), d), d, Key.bedrooms),
          d, Key.tenure),
        d, Key.listing_type),
      d))

\* agents.py:318-369: the follow-up response is decoded into details and
\* applied; every exception in here is caught by the inner handler.
\* prior is the local variable details as it was before (PyAbsent: unbound).
ApplyFollowUp(item, prior, content) ==
  LET unchanged == [item |-> item, details |-> prior]
      Apply(d) ==
        IF d.k = "absent" THEN unchanged         \* NameError, caught
        ELSE IF d.k # "dict" THEN [item |-> item, details |-> d]
                                                 \* AttributeError, caught
        ELSE [item |-> UpdateFromDetails(item, d), details |-> d]
  IN  CASE content.k = "absent" -> unchanged
        [] content.k = "dict" -> Apply(content)
        [] content.k = "str" ->
             IF Contains(content.s, Lit.FenceJson)
             THEN LET r == json_loads(FencedText(content.s))
                  IN  IF r.ok THEN Apply(r.v) ELSE unchanged
             ELSE LET r == json_loads(content.s)
                  IN  IF r.ok THEN Apply(r.v) ELSE Apply(PyDict(<<>>))
        [] OTHER -> Apply(prior)

\* agents.py:371-384: price per square foot from the price text, when none
\* is set yet; every exception is swallowed
DerivePricePerSqft(item) ==
  LET price == DictGet(item, Key.price)
      size == NumOf(DictGet(item, Key.size))
      pnum == IF price.k = "str"
              THEN NumOfText(Strip(Replace(Replace(price.s, Lit.RM, <<>>), Lit.Comma, <<>>)))
              ELSE NumOf(price)
  IN  IF /\ ~Truthy(DictGet(item, Key.price_per_sqft))
         /\ Truthy(DictGet(item, Key.size))
         /\ Truthy(price)
         /\ pnum.ok /\ size.ok /\ size.n # 0
      THEN DictSet(item, Key.price_per_sqft, PyInt(RoundDiv(pnum.n, size.n)))
      ELSE item

\* agents.py:386-394: listing type from the title and the price text when
\* none is set; raised where title or price is not a string
InferListingType(item) ==
  LET title == DictGetOr(item, Key.title, PyStr(<<>>))
      price == DictGetOr(item, Key.price, PyStr(<<>>))
  IN  IF Truthy(DictGet(item, Key.listing_type)) THEN [raised |-> FALSE, item |-> item]
      ELSE IF title.k # "str" \/ price.k # "str" THEN [raised |-> TRUE, item |-> item]
      ELSE IF \/ Contains(Lower(title.s), Lit.rent)
              \/ Contains(Lower(price.s), Lit.per_month)
              \/ Contains(Lower(price.s), Lit.PerMo)
           THEN [raised |-> FALSE, item |-> DictSet(item, Key.listing_type, PyStr(Lit.ForRent))]
           ELSE [raised |-> FALSE, item |-> DictSet(item, Key.listing_type, PyStr(Lit.ForSale))]

\* agents.py:396-398
EnsureFacilities(item) ==
  IF ~Truthy(DictGet(item, Key.facilities))
  THEN DictSet(item, Key.facilities, PyList(<<PyStr(Lit.InfoNotAvailable)>>))
  ELSE item

\* retention that forgets the title
Retained_LinkOnly(item) == Truthy(DictGet(item, Key.link))

\* agents.py:401: the minimum a candidate must have to be returned
Retained(item) == Truthy(DictGet(item, Key.title)) /\ Truthy(DictGet(item, Key.link))

\* insertion at the front instead of the end
AppendTo_Front(list, x) == <<x>> \o list

\* agents.py:402: processed_properties.append(property_item)
AppendTo(list, x) == Append(list, x)

(***************************************************************************)
(* The inputs of find_comparable_properties: the reference record, the     *)
(* user preferences, and what the comparison backend answers to the search *)
(* prompt and to each follow-up prompt.                                    *)
(***************************************************************************)
\* reference properties
REF ==
  [ A |->
      PyDict(<<Entry(<<"t", "i", "t", "l", "e">>, PyStr(<<"R", "e", "f", " ", "C", "o", "n", "d", "o">>)), Entry(<<"l", "o", "c", "a", "t", "i", "o", "n">>, PyStr(<<"K", "L">>)), Entry(<<"p", "r", "i", "c", "e">>, PyStr(<<"R", "M", " ", "5", "0", "0", ",", "0", "0", "0">>)), Entry(<<"d", "e", "t", "a", "i", "l", "s">>, PyDict(<<Entry(<<"b", "e", "d", "s">>, PyStr(<<"3">>)), Entry(<<"b", "a", "t", "h", "s">>, PyStr(<<"2">>)), Entry(<<"s", "q", "f", "t">>, PyStr(<<"1", "0", "0", "0">>))>>)), Entry(<<"l", "i", "s", "t", "i", "n", "g", "_", "u", "r", "l">>, PyStr(<<"h", "t", "t", "p", "s", ":", "/", "/", "w", "w", "w", ".", "i", "p", "r", "o", "p", "e", "r", "t", "y", ".", "c", "o", "m", ".", "m", "y", "/", "i", "p", "r", "o", "p", "e", "r", "t", "y", "/", "1">>))>>),
    B |->
      PyDict(<<Entry(<<"t", "i", "t", "l", "e">>, PyStr(<<"P", "r", "o", "p", "e", "r", "t", "y", " ", "D", "e", "t", "a", "i", "l", "s">>)), Entry(<<"l", "o", "c", "a", "t", "i", "o", "n">>, PyStr(<<"N", "o", "t", " ", "s", "p", "e", "c", "i", "f", "i", "e", "d">>)), Entry(<<"p", "r", "i", "c", "e">>, PyStr(<<"N", "o", "t", " ", "a", "v", "a", "i", "l", "a", "b", "l", "e">>)), Entry(<<"d", "e", "t", "a", "i", "l", "s">>, PyDict(<<Entry(<<"b", "e", "d", "s">>, PyStr(<<"N", "/", "A">>)), Entry(<<"b", "a", "t", "h", "s">>, PyStr(<<"N", "/", "A">>)), Entry(<<"s", "q", "f", "t">>, PyStr(<<"N", "/", "A">>))>>)), Entry(<<"l", "i", "s", "t", "i", "n", "g", "_", "u", "r", "l">>, PyStr(<<"u", "2">>)), Entry(<<"e", "r", "r", "o", "r">>, PyStr(<<"E", "r", "r", "o", "r", ":", " ", "t", "i", "m", "e", "o", "u", "t">>))>>),
    C |->
      PyDict(<<>>) ]

\* user preferences
PREFS ==
  [ A |->
      PyDict(<<Entry(<<"p", "u", "r", "p", "o", "s", "e">>, PyStr(<<"I", "n", "v", "e", "s", "t", "m", "e", "n", "t">>)), Entry(<<"b", "u", "d", "g", "e", "t", "_", "r", "a", "n", "g", "e">>, PyDict(<<Entry(<<"m", "i", "n">>, PyInt(1)), Entry(<<"m", "a", "x">>, PyInt(9))>>))>>),
    B |->
      PyDict(<<>>) ]

\* the (reference, preferences) pairs the function is called with
Calls == {<<REF.A, PREFS.A>>, <<REF.B, PREFS.B>>, <<REF.C, PREFS.A>>}

\* candidate records of a search result
CAND ==
  [ Rent |->
      PyDict(<<Entry(<<"t", "i", "t", "l", "e">>, PyStr(<<"C", "o", "n", "d", "o", " ", "f", "o", "r", " ", "R", "e", "n", "t", " ", "i", "n", " ", "P", "J">>)), Entry(<<"l", "o", "c", "a", "t", "i", "o", "n">>, PyStr(<<"P", "J">>)), Entry(<<"p", "r", "i", "c", "e">>, PyStr(<<"R", "M", " ", "2", ",", "0", "0", "0">>)), Entry(<<"l", "i", "n", "k">>, PyStr(<<"h", "t", "t", "p", "s", ":", "/", "/", "w", "w", "w", ".", "p", "r", "o", "p", "e", "r", "t", "y", "g", "u", "r", "u", ".", "c", "o", "m", ".", "m", "y", "/", "p", "/", "9">>))>>),
    SameLink |->
      PyDict(<<Entry(<<"t", "i", "t", "l", "e">>, PyStr(<<"S", "a", "m", "e", " ", "L", "i", "n", "k">>)), Entry(<<"p", "r", "i", "c", "e">>, PyStr(<<"R", "M", " ", "1">>)), Entry(<<"l", "i", "n", "k">>, PyStr(<<"h", "t", "t", "p", "s", ":", "/", "/", "w", "w", "w", ".", "i", "p", "r", "o", "p", "e", "r", "t", "y", ".", "c", "o", "m", ".", "m", "y", "/", "i", "p", "r", "o", "p", "e", "r", "t", "y", "/", "1">>))>>),
    SameTitle |->
      PyDict(<<Entry(<<"t", "i", "t", "l", "e">>, PyStr(<<"R", "e", "f", " ", "C", "o", "n", "d", "o">>)), Entry(<<"p", "r", "i", "c", "e">>, PyStr(<<"R", "M", " ", "2">>)), Entry(<<"l", "i", "n", "k">>, PyStr(<<"h", "t", "t", "p", "s", ":", "/", "/", "x", "/", "3">>))>>),
    Relative |->
      PyDict(<<Entry(<<"t", "i", "t", "l", "e">>, PyStr(<<"R", "e", "l", "a", "t", "i", "v", "e">>)), Entry(<<"p", "r", "i", "c", "e">>, PyStr(<<"R", "M", " ", "4", "0", "0", ",", "0", "0", "0">>)), Entry(<<"s", "i", "z", "e">>, PyInt(-1000)), Entry(<<"l", "i", "n", "k">>, PyStr(<<"/", "i", "p", "r", "o", "p", "e", "r", "t", "y", "/", "1">>))>>),
    NoLink |->
      PyDict(<<Entry(<<"t", "i", "t", "l", "e">>, PyStr(<<"N", "o", " ", "L", "i", "n", "k">>)), Entry(<<"p", "r", "i", "c", "e">>, PyStr(<<"R", "M", " ", "3">>))>>),
    NoTitle |->
      PyDict(<<Entry(<<"t", "i", "t", "l", "e">>, PyStr(<<>>)), Entry(<<"p", "r", "i", "c", "e">>, PyStr(<<>>)), Entry(<<"l", "i", "n", "k">>, PyStr(<<"h", "t", "t", "p", "s", ":", "/", "/", "x", "/", "6">>))>>),
    IntPrice |->
      PyDict(<<Entry(<<"t", "i", "t", "l", "e">>, PyStr(<<"I", "n", "t", " ", "P", "r", "i", "c", "e">>)), Entry(<<"p", "r", "i", "c", "e">>, PyInt(500000)), Entry(<<"l", "i", "n", "k">>, PyStr(<<"h", "t", "t", "p", "s", ":", "/", "/", "x", "/", "7">>))>>),
    Full |->
      PyDict(<<Entry(<<"t", "i", "t", "l", "e">>, PyStr(<<"F", "r", "e", "e", "h", "o", "l", "d", " ", "h", "o", "u", "s", "e">>)), Entry(<<"p", "r", "i", "c", "e">>, PyStr(<<"R", "M", " ", "5", "0", "0", ",", "0", "0", "0">>)), Entry(<<"s", "i", "z", "e">>, PyInt(1000)), Entry(<<"p", "r", "i", "c", "e", "_", "p", "e", "r", "_", "s", "q", "f", "t">>, PyInt(450)), Entry(<<"t", "e", "n", "u", "r", "e">>, PyStr(<<"F", "r", "e", "e", "h", "o", "l", "d">>)), Entry(<<"l", "i", "s", "t", "i", "n", "g", "_", "t", "y", "p", "e">>, PyStr(<<"F", "o", "r", " ", "S", "a", "l", "e">>)), Entry(<<"f", "a", "c", "i", "l", "i", "t", "i", "e", "s">>, PyList(<<PyStr(<<"G", "y", "m">>)>>)), Entry(<<"l", "i", "n", "k">>, PyStr(<<"/", "p", "r", "o", "p", "e", "r", "t", "y", "/", "a", "b", "c", "-", "1", "2", "3">>)), Entry(<<"s", "o", "u", "r", "c", "e">>, PyStr(<<"i", "p", "r", "o", "p", "e", "r", "t", "y">>))>>),
    Sale |->
      PyDict(<<Entry(<<"t", "i", "t", "l", "e">>, PyStr(<<"F", "r", "e", "e", "h", "o", "l", "d", " ", "h", "o", "u", "s", "e">>)), Entry(<<"p", "r", "i", "c", "e">>, PyStr(<<"R", "M", " ", "5", "0", "0", ",", "0", "0", "0">>)), Entry(<<"s", "i", "z", "e">>, PyInt(2000)), Entry(<<"p", "r", "i", "c", "e", "_", "p", "e", "r", "_", "s", "q", "f", "t">>, PyInt(250)), Entry(<<"l", "i", "n", "k">>, PyStr(<<"h", "t", "t", "p", "s", ":", "/", "/", "x", "/", "8">>))>>) ]

CandidatePool ==
  {CAND.Rent,
   CAND.SameLink,
   CAND.SameTitle,
   CAND.Relative,
   CAND.NoLink,
   CAND.NoTitle,
   CAND.IntPrice,
   CAND.Full,
   CAND.Sale}

\* every sequence of at most n candidates
RECURSIVE ListsUpTo(_)
ListsUpTo(n) ==
  IF n = 0 THEN {<<>>}
  ELSE LET P == ListsUpTo(n - 1) IN P \cup {Append(l, c) : l \in P, c \in CandidatePool}

\* the decimal text of a natural number
RECURSIVE TextOfNat(_)
TextOfNat(n) ==
  LET d == <<"0", "1", "2", "3", "4", "5", "6", "7", "8", "9">>[(n % 10) + 1]
  IN  IF n < 10 THEN <<d>> ELSE TextOfNat(n \div 10) \o <<d>>

\* the JSON text a backend writes for a value
RECURSIVE JsonOf(_), JsonOfAll(_, _)
JsonOf(v) ==
  CASE v.k = "none" -> <<"n", "u", "l", "l">>
    [] v.k = "bool" -> IF v.n = 1 THEN <<"t", "r", "u", "e">> ELSE <<"f", "a", "l", "s", "e">>
    [] v.k = "int" -> IF v.n < 0 THEN <<"-">> \o TextOfNat(-v.n) ELSE TextOfNat(v.n)
    [] v.k = "str" -> <<"\"">> \o v.s \o <<"\"">>
    [] v.k = "list" -> <<"[">> \o JsonOfAll(v.e, 1) \o <<"]">>
    [] v.k = "dict" -> <<"{">> \o JsonOfAll(v.e, 1) \o <<"}">>
    [] v.k = "entry" -> <<"\"">> \o v.s \o <<"\"", ":", " ">> \o JsonOf(v.e[1])
JsonOfAll(es, i) ==
  IF i > Len(es) THEN <<>>
  ELSE JsonOf(es[i]) \o (IF i < Len(es) THEN <<",", " ">> ELSE <<>>) \o JsonOfAll(es, i + 1)

\* a text in a json fence, with a sentence before it
Fenced(text) ==
  <<"H", "e", "r", "e", ":", "\n">> \o Lit.FenceJson \o <<"\n">> \o text \o <<"\n">> \o Lit.Fence

SearchOutcomes ==
  {Raises(m) : m \in ExcMessages}
    \cup {Responds(PyList(l)) : l \in ListsUpTo(MaxCandidates)}
    \cup {Responds(PyDict(<<Entry(Key.properties, PyList(l))>>)) : l \in ListsUpTo(1)}
    \cup {Responds(PyStr(Fenced(JsonOf(PyList(l))))) : l \in ListsUpTo(1)}
    \cup {Responds(PyStr(JsonOf(PyList(<<CAND.Rent>>)))),
          Responds(PyStr(Fenced(JsonOf(PyDict(<<Entry(Key.properties, PyList(<<CAND.Rent>>))>>))))),
          Responds(PyStr(Lit.FencedBad)),
          Responds(PyStr(Lit.Sorry)),
          Responds(PyDict(<<Entry(Key.properties, PyStr(Lit.Sorry))>>)),
          Responds(PyList(<<PyStr(Lit.Sorry)>>)),
          Responds(PyNone), Responds(PyAbsent)}

\* follow-up contents
DET ==
  [ Dict |->
      PyDict(<<Entry(<<"s", "i", "z", "e">>, PyInt(1000)), Entry(<<"p", "r", "i", "c", "e">>, PyInt(500000)), Entry(<<"b", "e", "d", "r", "o", "o", "m", "s">>, PyInt(3)), Entry(<<"t", "e", "n", "u", "r", "e">>, PyStr(<<"F", "r", "e", "e", "h", "o", "l", "d">>)), Entry(<<"l", "i", "s", "t", "i", "n", "g", "_", "t", "y", "p", "e">>, PyStr(<<"F", "o", "r", " ", "S", "a", "l", "e">>)), Entry(<<"f", "a", "c", "i", "l", "i", "t", "i", "e", "s">>, PyList(<<PyStr(<<"P", "o", "o", "l">>), PyStr(<<"G", "y", "m">>)>>))>>),
    Fenced |->
      <<Bt, Bt, Bt, "j", "s", "o", "n", "\n", "{", "\"", "s", "i", "z", "e", "\"", ":", " ", "\"", "1", ",", "2", "0", "0", " ", "s", "q", "f", "t", "\"", ",", " ", "\"", "p", "r", "i", "c", "e", "\"", ":", " ", "\"", "R", "M", " ", "6", "5", "0", ",", "0", "0", "0", "\"", "}", "\n", Bt, Bt, Bt>>,
    Prose |->
      <<"S", "o", "r", "r", "y">>,
    SizeOnly |->
      PyDict(<<Entry(<<"s", "i", "z", "e">>, PyInt(1200))>>) ]

DetailOutcomes ==
  {Raises(<<>>),
   Responds(DET.Dict), Responds(PyStr(DET.Fenced)), Responds(PyStr(DET.Prose)),
   Responds(DET.SizeOnly),
   Responds(PyNone)}

(***************************************************************************)
(* find_comparable_properties as a state machine.  fcp_pc is the position  *)
(* in the function: "idle", "search", "parse", "loop" (before candidate    *)
(* fcp_i), "done" (returned fcp_result) or "raised" (an exception left the *)
(* function).  candidates is the candidate list as the backend gave it;    *)
(* properties_list holds the same records as the loop changes them in      *)
(* place.  processed_src[k] is the index in candidates of                  *)
(* processed_properties[k]; followups lists the follow-up calls made: the  *)
(* candidate's index and what the backend answered.  details is the local  *)
(* variable of that name                                                   *)
(* (PyAbsent: not bound).                                                  *)
(***************************************************************************)
NoPrompt == [count |-> 0, location |-> PyAbsent, reference_title |-> PyAbsent,
             budget_min |-> PyAbsent, budget_max |-> PyAbsent]

fcp_Init ==
  /\ reference_property = PyAbsent
  /\ user_preferences = PyAbsent
  /\ search_prompt = NoPrompt
  /\ initial_response = PyAbsent
  /\ candidates = <<>>
  /\ properties_list = <<>>
  /\ processed_properties = <<>>
  /\ processed_src = <<>>
  /\ details = PyAbsent
  /\ followups = <<>>
  /\ fcp_i = 0
  /\ fcp_pc = "idle"
  /\ fcp_result = PyAbsent
  /\ fcp_caught = NoException

\* agents.py:200: the reference's title, with its default
reference_title == DictGetOr(reference_property, Key.title, PyStr(Lit.UnknownProperty))
\* agents.py:199
reference_url == DictGetOr(reference_property, Key.listing_url, PyStr(<<>>))

\* agents.py:252-260: what the search prompt carries
SearchPrompt(ref, prefs) ==
  LET budget == DictGetOr(prefs, Key.budget_range, PyDict(<<>>))
  IN  [count |-> SearchCount,
       location |-> DictGetOr(ref, Key.location, PyStr(Lit.KualaLumpur)),
       reference_title |-> DictGetOr(ref, Key.title, PyStr(Lit.UnknownProperty)),
       budget_min |-> DictGetOr(budget, Key.min, PyInt(0)),
       budget_max |-> DictGetOr(budget, Key.max, PyInt(0))]

\* agents.py:405-407: what an exception raised inside the try leads to: the
\* function returns an empty list
FcpHandler(m) == [pc |-> "done", result |-> PyList(<<>>)]

\* agents.py:263: the search call stands before the try: its exception
\* leaves the function
SearchRaised(m) == [pc |-> "raised", result |-> PyAbsent]

\* the function ends as `how` says, with exception m
fcp_End(how, m) ==
  /\ fcp_caught' = Exception(m)
  /\ fcp_pc' = how.pc
  /\ fcp_result' = how.result

\* the elements a for loop over value v visits; a string gives its
\* characters, a mapping its keys
IterElems(v) ==
  CASE v.k = "list" -> v.e
    [] v.k = "str" -> [i \in 1..Len(v.s) |-> PyStr(<<v.s[i]>>)]
    [] v.k = "dict" -> [i \in 1..Len(v.e) |-> PyStr(v.e[i].s)]
    [] OTHER -> <<>>
Iterable(v) == v.k \in {"list", "str", "dict"}

\* the call find_comparable_properties(ref, prefs, agent): agents.py:193-260
fcp_Call(ref, prefs) ==
  /\ fcp_pc = "idle"
  /\ reference_property' = ref
  /\ user_preferences' = prefs
  /\ search_prompt' = SearchPrompt(ref, prefs)
  /\ fcp_pc' = "search"
  /\ UNCHANGED <<initial_response, candidates, properties_list,
                 processed_properties, processed_src, details, followups,
                 fcp_i, fcp_result, fcp_caught>>
  /\ UNCHANGED <<ppu_vars, gfr_vars, app_vars>>

\* agents.py:263: the search backend is called
fcp_Search ==
  /\ fcp_pc = "search"
  /\ \E out \in SearchOutcomes :
       IF out.raises
       THEN /\ fcp_End(SearchRaised(out.msg), out.msg)
            /\ UNCHANGED initial_response
       ELSE /\ initial_response' = out.content
            /\ fcp_pc' = "parse"
            /\ UNCHANGED <<fcp_result, fcp_caught>>
  /\ UNCHANGED <<reference_property, user_preferences, search_prompt,
                 candidates, properties_list, processed_properties,
                 processed_src, details, followups, fcp_i>>
  /\ UNCHANGED <<ppu_vars, gfr_vars, app_vars>>

\* agents.py:265-287: the response is decoded into properties_list and the
\* loop is entered
fcp_ParseSearch ==
  /\ fcp_pc = "parse"
  /\ \E r \in {ParseSearch(initial_response)} :
         IF r.raised \/ ~Iterable(r.list)
         THEN /\ fcp_End(FcpHandler(Lit.TypeError), Lit.TypeError)
              /\ UNCHANGED <<candidates, properties_list, fcp_i>>
         ELSE /\ candidates' = IterElems(r.list)
              /\ properties_list' = IterElems(r.list)
              /\ fcp_i' = 1
              /\ fcp_pc' = "loop"
              /\ UNCHANGED <<fcp_result, fcp_caught>>
  /\ UNCHANGED <<reference_property, user_preferences, search_prompt,
                 initial_response, processed_properties, processed_src,
                 details, followups>>
  /\ UNCHANGED <<ppu_vars, gfr_vars, app_vars>>

\* agents.py:371-402 for the candidate at fcp_i, whose record is item after
\* the follow-up stage and whose follow-up left details as d
fcp_Finish(item, d) ==
  \E typed \in {InferListingType(DerivePricePerSqft(item))} :
  \E final \in {EnsureFacilities(typed.item)} :
      IF typed.raised
      THEN /\ fcp_End(FcpHandler(Lit.TypeError), Lit.TypeError)
           /\ UNCHANGED <<properties_list, processed_properties, processed_src,
                          details, fcp_i>>
      ELSE /\ properties_list' = [properties_list EXCEPT ![fcp_i] = final]
           /\ processed_properties' =
                IF Retained(final) THEN AppendTo(processed_properties, final)
                ELSE processed_properties
           /\ processed_src' =
                IF Retained(final) THEN AppendTo(processed_src, fcp_i)
                ELSE processed_src
           /\ details' = d
           /\ fcp_i' = fcp_i + 1
           /\ UNCHANGED <<fcp_pc, fcp_result, fcp_caught>>

InLoop == fcp_pc = "loop" /\ fcp_i <= Len(properties_list)

\* agents.py:289, 293: a candidate that is no mapping, or whose link has no
\* startswith, raises
fcp_BadCandidate ==
  /\ InLoop
  /\ LET item == properties_list[fcp_i]
     IN  \/ item.k # "dict"
         \/ /\ ~IsReference(item, reference_url, reference_title)
            /\ RewriteLink(item).raised
  /\ fcp_End(FcpHandler(Lit.TypeError), Lit.TypeError)
  /\ UNCHANGED <<reference_property, user_preferences, search_prompt,
                 initial_response, candidates, properties_list,
                 processed_properties, processed_src, details, followups, fcp_i>>
  /\ UNCHANGED <<ppu_vars, gfr_vars, app_vars>>

\* agents.py:289-290: the reference itself is skipped
fcp_Skip ==
  /\ InLoop
  /\ properties_list[fcp_i].k = "dict"
  /\ IsReference(properties_list[fcp_i], reference_url, reference_title)
  /\ fcp_i' = fcp_i + 1
  /\ UNCHANGED <<reference_property, user_preferences, search_prompt,
                 initial_response, candidates, properties_list,
                 processed_properties, processed_src, details, followups,
                 fcp_pc, fcp_result, fcp_caught>>
  /\ UNCHANGED <<ppu_vars, gfr_vars, app_vars>>

\* the candidate at fcp_i passes line 289 and its link is rewritten
Passes ==
  /\ InLoop
  /\ properties_list[fcp_i].k = "dict"
  /\ ~IsReference(properties_list[fcp_i], reference_url, reference_title)
  /\ ~RewriteLink(properties_list[fcp_i]).raised

\* agents.py:292-300, 371-402: a candidate without a link gets no follow-up
fcp_NoFollowUp ==
  /\ Passes
  /\ \E item \in {RewriteLink(properties_list[fcp_i]).item} :
         /\ ~Truthy(DictGet(item, Key.link))
         /\ fcp_Finish(item, details)
  /\ UNCHANGED <<reference_property, user_preferences, search_prompt,
                 initial_response, candidates, followups>>
  /\ UNCHANGED <<ppu_vars, gfr_vars, app_vars>>

\* agents.py:292-402: a candidate with a link: the follow-up backend call,
\* its decoding into the candidate, and the rest of the loop body
fcp_FollowUp ==
  /\ Passes
  /\ \E item \in {RewriteLink(properties_list[fcp_i]).item} :
         /\ Truthy(DictGet(item, Key.link))
         /\ \E out \in DetailOutcomes :
              /\ followups' = Append(followups, [i |-> fcp_i, out |-> out])
              /\ IF out.raises
                 THEN /\ fcp_End(FcpHandler(out.msg), out.msg)
                      /\ UNCHANGED <<properties_list, processed_properties,
                                     processed_src, details, fcp_i>>
                 ELSE \E fu \in {ApplyFollowUp(item, details, out.content)} :
                        fcp_Finish(fu.item, fu.details)
  /\ UNCHANGED <<reference_property, user_preferences, search_prompt,
                 initial_response, candidates>>
  /\ UNCHANGED <<ppu_vars, gfr_vars, app_vars>>

\* agents.py:404: the loop is over and processed_properties is returned
fcp_Return ==
  /\ fcp_pc = "loop"
  /\ fcp_i > Len(properties_list)
  /\ fcp_result' = PyList(processed_properties)
  /\ fcp_pc' = "done"
  /\ UNCHANGED <<reference_property, user_preferences, search_prompt,
                 initial_response, candidates, properties_list,
                 processed_properties, processed_src, details, followups,
                 fcp_i, fcp_caught>>
  /\ UNCHANGED <<ppu_vars, gfr_vars, app_vars>>

fcp_Next ==
  \/ \E c \in Calls : fcp_Call(c[1], c[2])
  \/ fcp_Search
  \/ fcp_ParseSearch
  \/ fcp_BadCandidate
  \/ fcp_Skip
  \/ fcp_NoFollowUp
  \/ fcp_FollowUp
  \/ fcp_Return

(***************************************************************************)
(* generate_final_recommendation: json.dumps(v, indent=2), str(v), and the *)
(* function as a state machine.                                            *)
(***************************************************************************)
\* a Python value json.dumps has no encoding for (a set, an object)
PyObject(typename) == Node("object", typename, 0, <<>>)

\* whether json.dumps encodes v; it raises TypeError otherwise
RECURSIVE Serialisable(_)
Serialisable(v) ==
  CASE v.k \in {"none", "bool", "int", "str"} -> TRUE
    [] v.k \in {"list", "dict", "entry"} ->
         \A i \in 1..Len(v.e) : Serialisable(v.e[i])
    [] OTHER -> FALSE

\* the characters of a JSON string body: the quote, the backslash and the
\* newline are escaped (the texts here hold no other control character and
\* no character outside ASCII)
RECURSIVE JsonEscape(_)
JsonEscape(s) ==
  IF s = <<>> THEN <<>>
  ELSE (CASE Head(s) = "\"" -> <<"\\", "\"">>
          [] Head(s) = "\\" -> <<"\\", "\\">>
          [] Head(s) = "\n" -> <<"\\", "n">>
          [] OTHER -> <<Head(s)>>) \o JsonEscape(Tail(s))

\* the white space that opens a line at nesting depth level, indent=2
RECURSIVE Indent(_)
Indent(level) == IF level = 0 THEN <<>> ELSE <<" ", " ">> \o Indent(level - 1)

\* json.dumps(v, indent=2) of a value json.dumps encodes, at a nesting depth
RECURSIVE JsonIndented(_, _), JsonItems(_, _, _)
JsonIndented(v, level) ==
  CASE v.k = "none" -> <<"n", "u", "l", "l">>
    [] v.k = "bool" -> IF v.n = 1 THEN <<"t", "r", "u", "e">> ELSE <<"f", "a", "l", "s", "e">>
    [] v.k = "int" -> IF v.n < 0 THEN <<"-">> \o TextOfNat(-v.n) ELSE TextOfNat(v.n)
    [] v.k = "str" -> <<"\"">> \o JsonEscape(v.s) \o <<"\"">>
    [] v.k = "list" ->
         IF v.e = <<>> THEN <<"[", "]">>
         ELSE <<"[", "\n">> \o JsonItems(v.e, 1, level + 1) \o <<"\n">> \o Indent(level) \o <<"]">>
    [] v.k = "dict" ->
         IF v.e = <<>> THEN <<"{", "}">>
         ELSE <<"{", "\n">> \o JsonItems(v.e, 1, level + 1) \o <<"\n">> \o Indent(level) \o <<"}">>
    [] v.k = "entry" ->
         <<"\"">> \o JsonEscape(v.s) \o <<"\"", ":", " ">> \o JsonIndented(v.e[1], level)
JsonItems(es, i, level) ==
  IF i > Len(es) THEN <<>>
  ELSE Indent(level) \o JsonIndented(es[i], level)
         \o (IF i < Len(es) THEN <<",", "\n">> ELSE <<>>)
         \o JsonItems(es, i + 1, level)

\* agents.py:425, 428, 431: json.dumps(v, indent=2)
json_dumps(v) == JsonIndented(v, 0)

\* repr(s) of a string: single quotes, or double quotes when the string
\* holds a single quote and no double quote
RECURSIVE ReprEscape(_, _)
ReprEscape(s, q) ==
  IF s = <<>> THEN <<>>
  ELSE (CASE Head(s) = q -> <<"\\", q>>
          [] Head(s) = "\\" -> <<"\\", "\\">>
          [] Head(s) = "\n" -> <<"\\", "n">>
          [] OTHER -> <<Head(s)>>) \o ReprEscape(Tail(s), q)

ReprStr(s) ==
  LET q == IF Contains(s, <<"'">>) /\ ~Contains(s, <<"\"">>) THEN "\"" ELSE "'"
  IN  <<q>> \o ReprEscape(s, q) \o <<q>>

\* repr(v)
RECURSIVE PyRepr(_), ReprItems(_, _)
PyRepr(v) ==
  CASE v.k = "none" -> Lit.None
    [] v.k = "bool" -> IF v.n = 1 THEN <<"T", "r", "u", "e">> ELSE <<"F", "a", "l", "s", "e">>
    [] v.k = "int" -> IF v.n < 0 THEN <<"-">> \o TextOfNat(-v.n) ELSE TextOfNat(v.n)
    [] v.k = "str" -> ReprStr(v.s)
    [] v.k = "list" -> <<"[">> \o ReprItems(v.e, 1) \o <<"]">>
    [] v.k = "dict" -> <<"{">> \o ReprItems(v.e, 1) \o <<"}">>
    [] v.k = "entry" -> ReprStr(v.s) \o <<":", " ">> \o PyRepr(v.e[1])
ReprItems(es, i) ==
  IF i > Len(es) THEN <<>>
  ELSE PyRepr(es[i]) \o (IF i < Len(es) THEN <<",", " ">> ELSE <<>>) \o ReprItems(es, i + 1)

\* str(v): a string is itself, any other value is its repr
str(v) == IF v.k = "str" THEN v.s ELSE PyRepr(v)

\* agents.py:421-543: the prompt; its text after the three records is the
\* same in every call and is cut here after its first sentence's opening
RecommendationPrompt(reference, comparables, preferences) ==
  <<"\n", " ", " ", " ", " ", "A", "s", " ", "a", " ", "M", "a", "l", "a", "y", "s", "i", "a", "n", " ", "p", "r", "o", "p", "e", "r", "t", "y", " ", "e", "x", "p", "e", "r", "t", ",", " ", "a", "n", "a", "l", "y", "z", "e", " ", "t", "h", "e", "s", "e", " ", "p", "r", "o", "p", "e", "r", "t", "i", "e", "s", ":", "\n", " ", " ", " ", " ", "\n", " ", " ", " ", " ", "R", "E", "F", "E", "R", "E", "N", "C", "E", " ", "P", "R", "O", "P", "E", "R", "T", "Y", ":", "\n", " ", " ", " ", " ">>
    \o json_dumps(reference)
    \o <<"\n", " ", " ", " ", " ", "\n", " ", " ", " ", " ", "A", "L", "T", "E", "R", "N", "A", "T", "I", "V", "E", "S", ":", "\n", " ", " ", " ", " ">>
    \o json_dumps(comparables)
    \o <<"\n", " ", " ", " ", " ", "\n", " ", " ", " ", " ", "U", "S", "E", "R", " ", "P", "R", "E", "F", "E", "R", "E", "N", "C", "E", "S", ":", "\n", " ", " ", " ", " ">>
    \o json_dumps(preferences)
    \o <<"\n", " ", " ", " ", " ", "\n", " ", " ", " ", " ", "Y", "o", "u", "r", " ", "a", "n", "a", "l", "y", "s", "i", "s", " ", "s", "h", "o", "u", "l", "d", " ", "b", "e", " ", "f", "o", "r", "m", "a", "t", "t", "e", "d", " ", "f", "o", "r", " ", "a", " ", "C", "L", "E", "A", "N", ",", " ", "M", "I", "N", "I", "M", "A", "L", "I", "S", "T", "I", "C", " ", "U", "I">>

\* str(e) of the TypeError json.dumps raises
NotSerializable ==
  <<"O", "b", "j", "e", "c", "t", " ", "o", "f", " ", "t", "y", "p", "e", " ", "s", "e", "t", " ", "i", "s", " ", "n", "o", "t", " ", "J", "S", "O", "N", " ", "s", "e", "r", "i", "a", "l", "i", "z", "a", "b", "l", "e">>

\* the arguments of the calls: records as the two earlier functions return
\* them, and values json.dumps cannot encode
GfrReferences == {REF.A, REF.B, PyNone}
GfrComparables ==
  {PyList(<<>>), PyList(<<CAND.Full>>), PyList(<<CAND.Rent, CAND.Sale>>)}
GfrPreferences ==
  {PREFS.A, PREFS.B,
   PyDict(<<Entry(<<"f", "e", "a", "t", "u", "r", "e", "s">>, PyObject(<<"s", "e", "t">>))>>)}

\* narrative texts of the backend
REC ==
  [ Verdict |->
      <<"#", "#", "#", " ", "F", "i", "n", "a", "l", " ", "V", "e", "r", "d", "i", "c", "t", "\n", "B", "u", "y", " ", "t", "h", "e", " ", "r", "e", "f", "e", "r", "e", "n", "c", "e", " ", "p", "r", "o", "p", "e", "r", "t", "y", ".">>,
    Quoted |->
      <<"I", "t", "'", "s", " ", "\"", "g", "o", "o", "d", "\"", " ", "v", "a", "l", "u", "e">> ]

\* what main_agent.run gives back
RecommendOutcomes ==
  {Raises(m) : m \in ExcMessages}
    \cup {Responds(PyStr(REC.Verdict)), Responds(PyStr(REC.Quoted)),
          Responds(PyStr(<<>>)), Responds(PyNone), Responds(PyInt(0)),
          Responds(PyList(<<PyStr(REC.Quoted)>>)),
          Responds(PyDict(<<Entry(Key.title, PyStr(REC.Verdict))>>)),
          Responds(PyAbsent)}

\* agents.py:549-552: the value returned for a response with this content
\* (PyAbsent: the response has no content attribute)
Recommendation(content) ==
  IF content.k # "absent"
  THEN (IF content.k = "str" THEN content.s ELSE str(content))
  ELSE Lit.CouldNotGenerate

NoArgs == [reference_property |-> PyAbsent, comparable_properties |-> PyAbsent,
           user_preferences |-> PyAbsent]

gfr_Init ==
  /\ gfr_args = NoArgs
  /\ prompt = <<>>
  /\ response = PyAbsent
  /\ gfr_pc = "idle"
  /\ gfr_result = PyAbsent
  /\ gfr_raised = NoException

\* agents.py:410-415: the call
gfr_Call(reference, comparables, preferences) ==
  /\ gfr_pc = "idle"
  /\ gfr_args' = [reference_property |-> reference,
                  comparable_properties |-> comparables,
                  user_preferences |-> preferences]
  /\ gfr_pc' = "prompt"
  /\ UNCHANGED <<prompt, response, gfr_result, gfr_raised>>
  /\ UNCHANGED <<ppu_vars, fcp_vars, app_vars>>

\* agents.py:421-543: the prompt is built; a TypeError of json.dumps leaves
\* the function, which has no handler
gfr_Prompt ==
  /\ gfr_pc = "prompt"
  /\ IF /\ Serialisable(gfr_args.reference_property)
        /\ Serialisable(gfr_args.comparable_properties)
        /\ Serialisable(gfr_args.user_preferences)
     THEN /\ prompt' = RecommendationPrompt(gfr_args.reference_property,
                                            gfr_args.comparable_properties,
                                            gfr_args.user_preferences)
          /\ gfr_pc' = "run"
          /\ UNCHANGED gfr_raised
     ELSE /\ gfr_raised' = Exception(NotSerializable)
          /\ gfr_pc' = "raised"
          /\ UNCHANGED prompt
  /\ UNCHANGED <<gfr_args, response, gfr_result>>
  /\ UNCHANGED <<ppu_vars, fcp_vars, app_vars>>

\* agents.py:546: main_agent.run(prompt); its exception leaves the function
gfr_Run ==
  /\ gfr_pc = "run"
  /\ \E out \in RecommendOutcomes :
       IF out.raises
       THEN /\ gfr_raised' = Exception(out.msg)
            /\ gfr_pc' = "raised"
            /\ UNCHANGED response
       ELSE /\ response' = out.content
            /\ gfr_pc' = "respond"
            /\ UNCHANGED gfr_raised
  /\ UNCHANGED <<gfr_args, prompt, gfr_result>>
  /\ UNCHANGED <<ppu_vars, fcp_vars, app_vars>>

\* agents.py:549-552: the return
gfr_Return ==
  /\ gfr_pc = "respond"
  /\ gfr_result' = PyStr(Recommendation(response))
  /\ gfr_pc' = "done"
  /\ UNCHANGED <<gfr_args, prompt, response, gfr_raised>>
  /\ UNCHANGED <<ppu_vars, fcp_vars, app_vars>>

gfr_Next ==
  \/ \E r \in GfrReferences, c \in GfrComparables, p \in GfrPreferences :
       gfr_Call(r, c, p)
  \/ gfr_Prompt
  \/ gfr_Run
  \/ gfr_Return

(***************************************************************************)
(* The application (app.py).  One action is one user action and the script *)
(* run it triggers.  session_state is st.session_state as a function from  *)
(* key to value (the keys Streamlit adds for its widgets are left out);    *)
(* invocations lists the calls of the three pipeline functions in the      *)
(* order they were made; clicks counts the user actions.                   *)
(***************************************************************************)
\* the most user actions in one session
MaxClicks == 5

\* app.py:21-61: the value initialize_session_state gives a missing key
SessionDefaults ==
  [ step |-> 1,
    property_url |-> "",
    reference_property |-> PyNone,
    user_preferences |-> PyDict(<<>>),
    comparable_properties |-> PyNone,
    recommendation |-> PyNone,
    api_keys_validated |-> FALSE,
    api_provider |-> "openai",
    openai_api_key |-> "",
    groq_api_key |-> "",
    firecrawl_api_key |-> "",
    selected_model |-> "gpt-4o-mini",
    agents_initialized |-> FALSE ]

\* app.py:21-61: every missing key gets its default, a present key stays
initialize_session_state(s) == s @@ SessionDefaults

\* st.session_state[key] = val
SessionSet(s, key, val) == (key :> val) @@ s

\* app.py:734-737: the keys Start Over keeps
KeptByStartOver ==
  {"groq_api_key", "firecrawl_api_key", "api_keys_validated", "agents_initialized"}

\* app.py:734-739: Start Over deletes every other key, initialises the
\* session again and goes to step 1
StartOver(s) ==
  SessionSet(initialize_session_state([k \in DOMAIN s \cap KeptByStartOver |-> s[k]]),
             "step", 1)

\* app.py:81-131: the provider form; index 0 of each selection is its default
ModelOptions ==
  [ openai |-> <<"gpt-4o-mini", "gpt-4o", "gpt-3.5-turbo">>,
    groq |-> <<"llama3-70b-8192", "llama3-8b-8192", "mixtral-8x7b-32768">> ]

\* the session key of a provider's API key
ApiKeyName(provider) == IF provider = "openai" THEN "openai_api_key" ELSE "groq_api_key"

\* app.py:88-131: rendering the form writes the chosen provider, the typed
\* key and the chosen model into the session
RenderKeysForm(s, provider, api_key, model) ==
  SessionSet(SessionSet(SessionSet(s, "api_provider", provider),
                        ApiKeyName(provider), api_key),
             "selected_model", model)

\* app.py:81-104: the form as it appears without user input: the first
\* provider, the stored key, the first model
RenderKeysFormFresh(s) ==
  RenderKeysForm(s, "openai", s["openai_api_key"], ModelOptions.openai[1])

\* app.py:176-197: the agents in the order they are created, and what each
\* is created from
AgentKeys == <<"crawl_agent", "format_agent", "comparison_agent", "main_agent">>

NewAgent(name, provider, api_key, model, firecrawl_api_key) ==
  IF name = "crawl_agent"
  THEN [agent |-> name, api_provider |-> "", api_key |-> "", model_id |-> "",
        firecrawl_api_key |-> firecrawl_api_key]
  ELSE [agent |-> name, api_provider |-> provider, api_key |-> api_key,
        model_id |-> model,
        firecrawl_api_key |-> IF name = "comparison_agent" THEN firecrawl_api_key ELSE ""]

\* app.py:176-197: the session after the first n agents were created
RECURSIVE WithAgents(_, _, _, _, _, _)
WithAgents(s, n, provider, api_key, model, firecrawl_api_key) ==
  IF n = 0 THEN s
  ELSE SessionSet(WithAgents(s, n - 1, provider, api_key, model, firecrawl_api_key),
                  AgentKeys[n],
                  NewAgent(AgentKeys[n], provider, api_key, model, firecrawl_api_key))

\* a call of a pipeline function: which, in which script run, with which
\* reference record (the URL for process_property_url), with which
\* credentials or agent, whether it returned, and what; app_Find adds to a
\* call of generate_final_recommendation the comparables and preferences
\* it was given
Invocation(fn, run, arg, using, returned, result) ==
  [fn |-> fn, run |-> run, arg |-> arg, using |-> using,
   returned |-> returned, result |-> result]

\* what the form fields hold when Save is clicked
ApiKeysTyped == {"", "sk-1"}
FirecrawlKeysTyped == {"", "fc-1"}

\* app.py:268-286: the example URLs
ExampleUrls ==
  [ iproperty |->
      {"https://www.iproperty.com.my/property/bangsar/sale-104072500/",
       "https://www.iproperty.com.my/property/kampung-kerinchi-bangsar-south/secoya-residence/rent-108241524/"},
    propertyguru |->
      {"https://www.propertyguru.com.my/property-listing/petaling-jaya-for-sale-by-wes-chang-41137999",
       "https://www.propertyguru.com.my/property-listing/sunsuria-forum-serviced-apartment-for-rent-by-ken-tan-42881000"} ]

\* what process_property_url returns to the application: a full record, the
\* error record, and a backend mapping without a title
ExtractOutcomes == {Responds(REF.A), Responds(REF.B), Responds(REF.C)}

\* what find_comparable_properties does for a reference mapping: it returns
\* a list, or the exception of the search call leaves it
CompareOutcomes ==
  {Responds(PyList(<<>>)), Responds(PyList(<<CAND.Rent>>)), Raises(<<>>)}

\* what generate_final_recommendation does: it returns a text, or an
\* exception leaves it
NarrativeOutcomes ==
  {Responds(PyStr(REC.Verdict)), Responds(PyStr(<<>>)), Raises(<<>>)}

\* app.py:522-538: the preferences the form gives
AppPreferences ==
  {PREFS.A, DictSet(PREFS.A, Key.purpose, PyStr(<<"O", "w", "n", " ", "s", "t", "a", "y">>))}

app_Init ==
  /\ session_state = initialize_session_state(<<>>)
  /\ invocations = <<>>
  /\ clicks = 0

\* a user action starts a script run
Click ==
  /\ clicks < MaxClicks
  /\ clicks' = clicks + 1

\* the step views without the check of the keys
Validated_Always == TRUE

\* app.py:938-940: the keys are validated
Validated == session_state["api_keys_validated"]

\* the credentials url_input_step passes to process_property_url
\* (app.py:323-326)
ExtractCredentials(s) ==
  [agent |-> "", api_provider |-> s["api_provider"],
   api_key |-> IF s["api_provider"] = "openai" THEN s["openai_api_key"]
               ELSE s["groq_api_key"],
   model_id |-> s["selected_model"],
   firecrawl_api_key |-> s["firecrawl_api_key"]]

\* app.py:81-131: the user changes the provider form without saving
app_FillKeys(provider, api_key, model) ==
  /\ ~Validated
  /\ Click
  /\ session_state' = RenderKeysForm(session_state, provider, api_key, model)
  /\ UNCHANGED invocations
  /\ UNCHANGED <<ppu_vars, fcp_vars, gfr_vars>>

\* app.py:164-207: Save and Continue, with the form filled as given;
\* created is the number of agents created before a creation raised (all
\* four: none raised)
app_Save(provider, api_key, model, firecrawl_api_key, created) ==
  /\ ~Validated
  /\ Click
  /\ LET s1 == RenderKeysForm(session_state, provider, api_key, model)
         s2 == SessionSet(s1, "firecrawl_api_key", firecrawl_api_key)
         s3 == WithAgents(s2, created, provider, api_key, model, firecrawl_api_key)
     IN  session_state' =
           IF api_key = "" \/ firecrawl_api_key = "" THEN s1
           ELSE IF created = Len(AgentKeys)
                THEN SessionSet(SessionSet(s3, "api_keys_validated", TRUE),
                                "agents_initialized", TRUE)
                ELSE SessionSet(s3, "api_keys_validated", FALSE)
  /\ UNCHANGED invocations
  /\ UNCHANGED <<ppu_vars, fcp_vars, gfr_vars>>

\* app.py:916-931: a sidebar button of a step other than the current one
app_Navigate(target) ==
  /\ Validated
  /\ target # Min({session_state["step"], 4})
  /\ Click
  /\ session_state' = SessionSet(session_state, "step", target)
  /\ UNCHANGED invocations
  /\ UNCHANGED <<ppu_vars, fcp_vars, gfr_vars>>

\* app.py:266-288: an example button
app_Example(site, example_url) ==
  /\ Validated
  /\ session_state["step"] = 1
  /\ Click
  /\ session_state' = SessionSet(SessionSet(session_state, "property_url", example_url),
                                 "example_site", site)
  /\ UNCHANGED invocations
  /\ UNCHANGED <<ppu_vars, fcp_vars, gfr_vars>>

\* a URL the user types into the text field
TypedUrl == "https://example.com/listing/1"

\* the texts the URL field holds over all sessions
UrlsTyped == {"", TypedUrl} \cup ExampleUrls.iproperty \cup ExampleUrls.propertyguru

\* app.py:303-347: Analyze Property with property_url in the text field:
\* nothing, the URL the session holds (app.py:255), or a typed one
app_Analyze(property_url) ==
  /\ Validated
  /\ session_state["step"] = 1
  /\ property_url \in {"", TypedUrl, session_state["property_url"]}
  /\ Click
  /\ IF property_url = ""
     THEN UNCHANGED <<session_state, invocations>>
     ELSE LET s1 == SessionSet(session_state, "property_url", property_url)
          IN  \E out \in ExtractOutcomes :
                /\ invocations' =
                     Append(invocations,
                            Invocation("process_property_url", clicks', property_url,
                                       ExtractCredentials(s1), TRUE, out.content))
                /\ session_state' =
                     IF Truthy(out.content) /\ HasKey(out.content, Key.title)
                     THEN SessionSet(SessionSet(s1, "reference_property", out.content),
                                     "step", 2)
                     ELSE s1
  /\ UNCHANGED <<ppu_vars, fcp_vars, gfr_vars>>

\* app.py:521-588: Find Comparable Properties with the preferences of the
\* form.  Reading a missing agent from the session raises before the call;
\* find_comparable_properties raises at agents.py:194 for a reference that
\* is no mapping; app.py:583 catches each exception.
app_Find(prefs) ==
  /\ Validated
  /\ session_state["step"] = 2
  /\ Click
  /\ LET s1 == SessionSet(session_state, "user_preferences", prefs)
         reference == s1["reference_property"]
         Compare(returned, result) ==
           Invocation("find_comparable_properties", clicks', reference,
                      s1["comparison_agent"], returned, result)
         Narrate(comparables, returned, result) ==
           Invocation("generate_final_recommendation", clicks', reference,
                      s1["main_agent"], returned, result)
             @@ [comparable_properties |-> comparables, user_preferences |-> prefs]
     IN  IF "comparison_agent" \notin DOMAIN s1
         THEN /\ session_state' = s1
              /\ UNCHANGED invocations
         ELSE IF reference.k # "dict"
         THEN /\ session_state' = s1
              /\ invocations' = Append(invocations, Compare(FALSE, PyAbsent))
         ELSE \E co \in CompareOutcomes :
                IF co.raises
                THEN /\ session_state' = s1
                     /\ invocations' = Append(invocations, Compare(FALSE, PyAbsent))
                ELSE LET s2 == SessionSet(s1, "comparable_properties", co.content)
                         log2 == Append(invocations, Compare(TRUE, co.content))
                     IN  IF "main_agent" \notin DOMAIN s2
                         THEN /\ session_state' = s2
                              /\ invocations' = log2
                         ELSE \E no \in NarrativeOutcomes :
                                IF no.raises
                                THEN /\ session_state' = s2
                                     /\ invocations' = Append(log2, Narrate(co.content, FALSE, PyAbsent))
                                ELSE /\ session_state' =
                                          SessionSet(SessionSet(s2, "recommendation", no.content),
                                                     "step", 3)
                                     /\ invocations' = Append(log2, Narrate(co.content, TRUE, no.content))
  /\ UNCHANGED <<ppu_vars, fcp_vars, gfr_vars>>

\* app.py:733-740, 758-765, 780-787: Start Over
app_StartOver ==
  /\ Validated
  /\ session_state["step"] = 3
  /\ Click
  /\ session_state' = StartOver(session_state)
  /\ UNCHANGED invocations
  /\ UNCHANGED <<ppu_vars, fcp_vars, gfr_vars>>

\* app.py:743-745, 768-770: Refine Criteria, shown with a recommendation
app_Refine ==
  /\ Validated
  /\ session_state["step"] = 3
  /\ Truthy(session_state["recommendation"])
  /\ Click
  /\ session_state' = SessionSet(session_state, "step", 2)
  /\ UNCHANGED invocations
  /\ UNCHANGED <<ppu_vars, fcp_vars, gfr_vars>>

\* app.py:834-837: Update API Keys; the run that follows shows the provider
\* form afresh (app.py:938-940)
app_UpdateKeys ==
  /\ Validated
  /\ session_state["step"] = 4
  /\ Click
  /\ session_state' =
       RenderKeysFormFresh(SessionSet(session_state, "api_keys_validated", FALSE))
  /\ UNCHANGED invocations
  /\ UNCHANGED <<ppu_vars, fcp_vars, gfr_vars>>

app_Next ==
  \/ \E p \in DOMAIN ModelOptions, k \in ApiKeysTyped, m \in 1..2 :
       app_FillKeys(p, k, ModelOptions[p][m])
  \/ \E p \in DOMAIN ModelOptions, k \in ApiKeysTyped, m \in 1..2,
        f \in FirecrawlKeysTyped, created \in 0..Len(AgentKeys) :
       app_Save(p, k, ModelOptions[p][m], f, created)
  \/ \E target \in 1..4 : app_Navigate(target)
  \/ \E site \in DOMAIN ExampleUrls : \E u \in ExampleUrls[site] : app_Example(site, u)
  \/ \E u \in UrlsTyped : app_Analyze(u)
  \/ \E prefs \in AppPreferences : app_Find(prefs)
  \/ app_StartOver
  \/ app_Refine
  \/ app_UpdateKeys

(***************************************************************************)
(* Specifications: one call of each function.                              *)
(***************************************************************************)
InitExtract == ppu_Init /\ fcp_Init /\ gfr_Init /\ app_Init
NextExtract == ppu_Next
SpecExtract == InitExtract /\ [][NextExtract]_vars

\* one call of process_property_url with crawl contents around the ceiling
NextExtractLong ==
  \/ \E u \in Urls : ppu_Call(u)
  \/ ppu_CrawlLong
  \/ ppu_FormatFew
  \/ ppu_Parse
  \/ ppu_Fallback
SpecExtractLong == InitExtract /\ [][NextExtractLong]_vars

InitCompare == ppu_Init /\ fcp_Init /\ gfr_Init /\ app_Init
NextCompare == fcp_Next
SpecCompare == InitCompare /\ [][NextCompare]_vars

InitRecommend == ppu_Init /\ fcp_Init /\ gfr_Init /\ app_Init
NextRecommend == gfr_Next
SpecRecommend == InitRecommend /\ [][NextRecommend]_vars

InitApp == ppu_Init /\ fcp_Init /\ gfr_Init /\ app_Init
NextApp == app_Next
SpecApp == InitApp /\ [][NextApp]_vars

(***************************************************************************)
(* Properties of process_property_url (SpecExtract).                       *)
(***************************************************************************)
\* the value of key in record r is the text t
FieldIs(r, key, t) == HasKey(r, key) /\ DictGet(r, key) = PyStr(t)

\* the function returned without its outer handler having run
ReturnedNormally == ppu_pc = "done" /\ ~ppu_caught.raised

\* the function returned from its outer handler
ReturnedFromHandler == ppu_pc = "done" /\ ppu_caught.raised

\* the format result is a text that neither decodes as JSON nor holds a
\* json fence whose text decodes
DecodeFails ==
  /\ formatted_response.k = "str"
  /\ ~json_loads(formatted_response.s).ok
  /\ \/ ~Contains(formatted_response.s, Lit.FenceJson)
     \/ ~json_loads(FencedText(formatted_response.s)).ok

\* the returned value is the regex-fallback path's
ParsePassed == ppu_pc \in {"fallback", "done"} /\ ~ppu_caught.raised

\* C1: process_property_url never raises to its caller; whenever the crawl
\* call, the format call or any other step inside the function raises, the
\* function returns the record with title "Property Details", location and
\* price "Not available", beds, baths and sqft "N/A", listing_url the input
\* URL, and a non-empty error text.
C1_ErrorRecordOnFailure ==
  /\ ppu_pc # "raised"
  /\ ppu_caught.raised =>
       /\ ppu_pc = "done"
       /\ ppu_result.k = "dict"
       /\ FieldIs(ppu_result, Key.title, Lit.PropertyDetails)
       /\ FieldIs(ppu_result, Key.location, Lit.NotAvailable)
       /\ FieldIs(ppu_result, Key.price, Lit.NotAvailable)
       /\ DictGet(ppu_result, Key.details).k = "dict"
       /\ FieldIs(DictGet(ppu_result, Key.details), Key.beds, Lit.NA)
       /\ FieldIs(DictGet(ppu_result, Key.details), Key.baths, Lit.NA)
       /\ FieldIs(DictGet(ppu_result, Key.details), Key.sqft, Lit.NA)
       /\ FieldIs(ppu_result, Key.listing_url, url)
       /\ DictGet(ppu_result, Key.error).k = "str"
       /\ Len(DictGet(ppu_result, Key.error).s) > 0

\* C1 witness: the crawl answered with a text, the format call raised an
\* exception whose message is empty, and the function has returned
C1_Witness ==
  /\ ReturnedFromHandler
  /\ raw_response.k = "str"
  /\ ppu_caught.msg = <<>>

\* C2: every value process_property_url returns is a mapping that has the
\* keys title, location, price, details and listing_url, each non-null.
C2_AllKeysOnEveryPath ==
  ppu_pc = "done" =>
    /\ ppu_result.k = "dict"
    /\ \A key \in {Key.title, Key.location, Key.price, Key.details, Key.listing_url} :
         HasKey(ppu_result, key) /\ DictGet(ppu_result, key).k # "none"

\* C3: the parse of the format result takes the first of: a mapping, as it
\* is; a text that is valid JSON, decoded; a text with a json fence whose
\* text (from the marker to the next fence) is valid JSON, that text
\* decoded; anything else gives no value and the regex fallback runs.
C3_ParserPrecedence ==
  ParsePassed =>
    LET c == formatted_response
        returned(v) == ppu_pc = "done" /\ ppu_result = v
    IN  /\ c.k = "dict" => returned(c)
        /\ (c.k = "str" /\ json_loads(c.s).ok) => returned(json_loads(c.s).v)
        /\ (c.k = "str" /\ ~json_loads(c.s).ok /\ Contains(c.s, Lit.FenceJson)
              /\ json_loads(FencedText(c.s)).ok)
             => returned(json_loads(FencedText(c.s)).v)
        /\ (c.k \notin {"dict", "str"} \/ DecodeFails) =>
             \/ ppu_pc = "fallback"
             \/ returned(RegexFallback(PyStrOf(raw_response), url))
        \* on the texts of the model
        /\ c = PyStr(FT.JsonWithFence) =>
             returned(PyStr(<<Bt, Bt, Bt, "j", "s", "o", "n", " ", "1", " ", Bt, Bt, Bt>>))
        /\ c = PyStr(FT.Fenced) =>
             returned(PyDict(<<Entry(Key.title, PyStr(<<"A">>))>>))
        /\ c = PyStr(FT.FencedOpen) =>
             returned(PyDict(<<Entry(Key.title, PyStr(<<"B">>))>>))
        /\ c = PyStr(FT.List) => returned(PyList(<<PyInt(1), PyInt(2)>>))
        /\ c \in {PyStr(FT.Prose), PyStr(FT.PlainFence), PyStr(FT.FencedBad)} =>
             (ppu_pc = "done" => HasKey(ppu_result, Key.property_type))

\* C3 witness: a text that is valid JSON and holds a json fence was
\* returned decoded as a whole
C3_Witness ==
  /\ ReturnedNormally
  /\ formatted_response = PyStr(FT.JsonWithFence)
  /\ ppu_result.k = "str"

\* C4: when the format result cannot be decoded (no JSON, no fence, or a
\* fence whose text is no JSON), the function returns, without its outer
\* handler running, the regex-fallback record of the crawl text: no error
\* key, listing_url the input URL.
C4_FallbackOnDecodeFailure ==
  (ppu_pc = "done" /\ DecodeFails) =>
    /\ ~ppu_caught.raised
    /\ ppu_result.k = "dict"
    /\ ~HasKey(ppu_result, Key.error)
    /\ FieldIs(ppu_result, Key.listing_url, url)
    /\ ppu_result = RegexFallback(PyStrOf(raw_response), url)
    /\ (raw_response = PyStr(CT.Prose) /\ formatted_response = PyStr(FT.Lovely)) =>
         /\ FieldIs(ppu_result, Key.title, Lit.PropertyDetails)
         /\ FieldIs(ppu_result, Key.location, Lit.NotSpecified)
         /\ FieldIs(ppu_result, Key.price, Lit.NotAvailable)
    /\ (raw_response = PyStr(CT.Lovely) /\ formatted_response = PyStr(FT.OtherTitle)) =>
         FieldIs(ppu_result, Key.title,
                 <<"L", "o", "v", "e", "l", "y", " ", "C", "o", "n", "d", "o">>)

\* C4 witness: a fence whose text is no JSON, over a crawl text with a title
C4_Witness ==
  /\ ppu_pc = "done"
  /\ formatted_response = PyStr(FT.OtherTitle)
  /\ raw_response = PyStr(CT.Lovely)

\* the value a field's patterns give on a text: the capture of the first
\* pattern that matches, else the default
Captured(pattern1, pattern2, text, default) ==
  LET m1 == Search(pattern1, text)
      m2 == Search(pattern2, text)
  IN  IF m1.ok THEN Group1(text, m1)
      ELSE IF m2.ok THEN Group1(text, m2)
      ELSE default

\* the price the patterns give: the currency amount the first pattern
\* matches, else the value the key pattern captures, else the default
CapturedPrice(text) ==
  LET m1 == Search("PriceRMAt", text)
      m2 == Search("PriceKeyAt", text)
  IN  IF m1.ok THEN Group0(text, m1)
      ELSE IF m2.ok THEN Group1(text, m2)
      ELSE Lit.NotAvailable

\* C5: for every crawl text the regex fallback returns a record with title,
\* location, price and details.beds, baths, sqft, each the value captured by
\* its first matching pattern or its default.
C5_FallbackFieldsCapturedOrDefault ==
  (ReturnedNormally /\ DecodeFails) =>
    LET text == PyStrOf(raw_response)
        d == DictGet(ppu_result, Key.details)
    IN  /\ ppu_result.k = "dict"
        /\ FieldIs(ppu_result, Key.title,
                   Captured("TitleH1At", "TitleKeyAt", text, Lit.PropertyDetails))
        /\ FieldIs(ppu_result, Key.location,
                   Captured("LocationKeyAt", "AddressKeyAt", text, Lit.NotSpecified))
        /\ FieldIs(ppu_result, Key.price, CapturedPrice(text))
        /\ d.k = "dict"
        /\ FieldIs(d, Key.beds, Captured("BedsNumAt", "BedsKeyAt", text, Lit.NotAvailable))
        /\ FieldIs(d, Key.baths, Captured("BathsNumAt", "BathsKeyAt", text, Lit.NotAvailable))
        /\ FieldIs(d, Key.sqft, Captured("SizeNumAt", "SizeKeyAt", text, Lit.NotAvailable))

\* C6: for the crawl text "# Lovely Condo\nlocation: Bangsar\nRM 650,000\n
\* 3 Beds\n2 Baths\n1200 sqft" and a format result that fails to decode,
\* the function returns title "Lovely Condo", location "Bangsar", price
\* "RM 650,000", beds "3", baths "2", sqft "1200".
C6_DegradedPathExample ==
  (ReturnedNormally /\ DecodeFails /\ raw_response = PyStr(CT.Lovely)) =>
    /\ FieldIs(ppu_result, Key.title,
               <<"L", "o", "v", "e", "l", "y", " ", "C", "o", "n", "d", "o">>)
    /\ FieldIs(ppu_result, Key.location, <<"B", "a", "n", "g", "s", "a", "r">>)
    /\ FieldIs(ppu_result, Key.price,
               <<"R", "M", " ", "6", "5", "0", ",", "0", "0", "0">>)
    /\ FieldIs(DictGet(ppu_result, Key.details), Key.beds, <<"3">>)
    /\ FieldIs(DictGet(ppu_result, Key.details), Key.baths, <<"2">>)
    /\ FieldIs(DictGet(ppu_result, Key.details), Key.sqft, <<"1", "2", "0", "0">>)

(***************************************************************************)
(* Properties of find_comparable_properties (SpecCompare).                 *)
(***************************************************************************)
\* the records of the returned list
Returned == IF fcp_pc = "done" THEN fcp_result.e ELSE <<>>

\* a value is a text that is not empty
NonEmptyText(v) == v.k = "str" /\ Len(v.s) > 0

\* C7: find_comparable_properties never raises to its caller: when the
\* search call, a follow-up call or a parsing or processing step raises,
\* the function returns an empty list.
C7_EmptyListOnFailure ==
  /\ fcp_pc # "raised"
  /\ fcp_caught.raised => (fcp_pc = "done" /\ fcp_result = PyList(<<>>))

\* C8: no returned record has, as it is returned, a link equal to the
\* reference's listing_url or a title equal to the reference's title.
C8_SelfExclusion ==
  fcp_pc = "done" =>
    \A k \in 1..Len(Returned) :
      /\ DictGet(Returned[k], Key.link) # reference_url
      /\ DictGet(Returned[k], Key.title) # reference_title

\* C9: every returned record has a non-empty title and a non-empty link,
\* and so had the candidate it was made from.
C9_TitleAndLinkPresent ==
  fcp_pc = "done" =>
    /\ \A k \in 1..Len(Returned) :
         /\ NonEmptyText(DictGet(Returned[k], Key.title))
         /\ NonEmptyText(DictGet(Returned[k], Key.link))
    /\ ~fcp_caught.raised =>
         /\ Len(Returned) = Len(processed_src)
         /\ \A k \in 1..Len(Returned) :
              /\ NonEmptyText(DictGet(candidates[processed_src[k]], Key.title))
              /\ NonEmptyText(DictGet(candidates[processed_src[k]], Key.link))
         /\ \A i \in 1..Len(candidates) :
              (candidates[i].k = "dict"
                 /\ ~(NonEmptyText(DictGet(candidates[i], Key.title))
                        /\ NonEmptyText(DictGet(candidates[i], Key.link))))
                => \A k \in 1..Len(processed_src) : processed_src[k] # i

\* C9 witness: a candidate without a link came back from the search ahead
\* of a candidate with title and link, and only the second was returned
C9_Witness ==
  /\ fcp_pc = "done"
  /\ ~fcp_caught.raised
  /\ candidates = <<CAND.NoLink, CAND.Full>>
  /\ Len(Returned) = 1
  /\ processed_src = <<2>>

\* C10: the returned list is a subsequence of the backend's candidate
\* list: each returned record is made from a candidate (it has its title),
\* the candidates' order is kept and none is returned twice.
C10_OrderPreserved ==
  fcp_pc = "done" =>
    IF fcp_caught.raised THEN Returned = <<>>
    ELSE /\ Len(Returned) = Len(processed_src)
         /\ \A k \in 1..Len(Returned) :
              /\ processed_src[k] \in 1..Len(candidates)
              /\ DictGet(Returned[k], Key.title)
                   = DictGet(candidates[processed_src[k]], Key.title)
         /\ \A j, k \in 1..Len(Returned) :
              j < k => processed_src[j] < processed_src[k]

\* C10 witness: two different candidates were both returned
C10_Witness ==
  /\ fcp_pc = "done"
  /\ Len(Returned) = 2
  /\ DictGet(Returned[1], Key.title) # DictGet(Returned[2], Key.title)

\* the candidate sequence a search content stands for, in the resolution
\* order of the text response parser: a sequence or a mapping with a
\* properties sequence, given directly, as a JSON text, or as the JSON
\* text of a json fence
SequenceOf(v) ==
  IF v.k = "list" THEN [ok |-> TRUE, list |-> v.e]
  ELSE IF v.k = "dict" /\ HasKey(v, Key.properties)
          /\ DictGet(v, Key.properties).k = "list"
       THEN [ok |-> TRUE, list |-> DictGet(v, Key.properties).e]
       ELSE [ok |-> FALSE, list |-> <<>>]

ExpectedCandidates(c) ==
  CASE c.k \in {"list", "dict"} -> SequenceOf(c)
    [] c.k = "str" /\ json_loads(c.s).ok -> SequenceOf(json_loads(c.s).v)
    [] c.k = "str" /\ ~json_loads(c.s).ok /\ Contains(c.s, Lit.FenceJson)
         /\ json_loads(FencedText(c.s)).ok ->
           SequenceOf(json_loads(FencedText(c.s)).v)
    [] OTHER -> [ok |-> FALSE, list |-> <<>>]

\* C11: the search result is decoded in the parser's resolution order: a
\* sequence, a mapping with a properties sequence, a plain JSON text of
\* either, and a json fence of either all give that sequence as the
\* candidate list.
C11_SearchDecoding ==
  (fcp_pc \in {"loop", "done"} /\ ExpectedCandidates(initial_response).ok) =>
    candidates = ExpectedCandidates(initial_response).list

\* the record names a site in the text of a field other than its link
MentionsElsewhere(item, site) ==
  \E j \in 1..Len(item.e) :
    /\ item.e[j].s # Key.link
    /\ item.e[j].e[1].k = "str"
    /\ Contains(item.e[j].e[1].s, site)

\* C12: a candidate whose link is a relative path and whose record names
\* "iproperty" (or "propertyguru") elsewhere than in the link is returned
\* with the site's host put before the path, and every returned link is an
\* absolute URL.
C12_LinkNormalization ==
  (fcp_pc = "done" /\ ~fcp_caught.raised) =>
    \A k \in 1..Len(Returned) :
      LET src == candidates[processed_src[k]]
          path == DictGet(src, Key.link).s
          out == DictGet(Returned[k], Key.link)
      IN  /\ out.k = "str"
          /\ HasAt(out.s, 1, Lit.http)
          /\ (~HasAt(path, 1, Lit.http) /\ MentionsElsewhere(src, Lit.iproperty))
               => out.s = Lit.HostIProperty \o path
          /\ (~HasAt(path, 1, Lit.http) /\ ~MentionsElsewhere(src, Lit.iproperty)
                /\ MentionsElsewhere(src, Lit.propertyguru))
               => out.s = Lit.HostPropertyGuru \o path

\* the numeric price of a returned record: its price_numeric when it has
\* one, else the number its price text writes after "RM" and the commas
\* are taken out
ResolvedPrice(r) ==
  LET pn == DictGet(r, Key.price_numeric)
      price == DictGet(r, Key.price)
  IN  IF IsNum(pn) /\ Truthy(pn) THEN [ok |-> TRUE, n |-> pn.n]
      ELSE IF price.k = "str"
           THEN NumOfText(Strip(Replace(Replace(price.s, Lit.RM, <<>>), Lit.Comma, <<>>)))
           ELSE NumOf(price)

\* C13: every returned record with size > 0 and a resolvable numeric price
\* has price_per_sqft = round(price_numeric / size).
C13_PricePerSqft ==
  fcp_pc = "done" =>
    \A k \in 1..Len(Returned) :
      LET r == Returned[k]
          size == DictGet(r, Key.size)
      IN  (IsNum(size) /\ size.n > 0 /\ ResolvedPrice(r).ok) =>
            DictGet(r, Key.price_per_sqft)
              = PyInt(RoundDiv(ResolvedPrice(r).n, size.n))

\* the mapping a follow-up answer carries: the content itself, or the JSON
\* text it holds (in a json fence or plain); PyDict(<<>>) when it carries
\* none
AnswerOf(out) ==
  LET c == out.content
      fromText(t) == IF json_loads(t).ok /\ json_loads(t).v.k = "dict"
                     THEN json_loads(t).v ELSE PyDict(<<>>)
  IN  IF out.raises THEN PyDict(<<>>)
      ELSE IF c.k = "dict" THEN c
      ELSE IF c.k = "str" /\ Contains(c.s, Lit.FenceJson) THEN fromText(FencedText(c.s))
      ELSE IF c.k = "str" THEN fromText(c.s)
      ELSE PyDict(<<>>)

\* neither the search result nor the follow-up answer for candidate i
\* supplied a value of the field
Unsupplied(i, key) ==
  /\ ~Truthy(DictGet(candidates[i], key))
  /\ \A j \in 1..Len(followups) :
       followups[j].i = i => ~Truthy(DictGet(AnswerOf(followups[j].out), key))

\* the listing type the lexical cues of a title and a price text give
CuedListingType(title, price) ==
  IF \/ Contains(Lower(title), Lit.rent)
     \/ Contains(Lower(price), Lit.per_month)
     \/ Contains(Lower(price), Lit.PerMo)
  THEN Lit.ForRent ELSE Lit.ForSale

\* C14: a returned record whose listing_type neither the search result nor
\* its follow-up answer supplied has listing_type "For Rent" when its
\* lower-cased title contains "rent" or its lower-cased price text contains
\* "per month" or "/mo", and "For Sale" otherwise.
C14_ListingTypeInferred ==
  (fcp_pc = "done" /\ ~fcp_caught.raised) =>
    \A k \in 1..Len(Returned) :
      Unsupplied(processed_src[k], Key.listing_type) =>
        LET src == candidates[processed_src[k]]
        IN  DictGet(Returned[k], Key.listing_type) =
              PyStr(CuedListingType(DictGetOr(src, Key.title, PyStr(<<>>)).s,
                                    DictGetOr(src, Key.price, PyStr(<<>>)).s))

\* C15: every returned record has a tenure that is "Freehold", "Leasehold"
\* or "Unknown"; a candidate whose tenure is unresolved after the follow-up
\* stage is returned with tenure "Unknown".
C15_TenureDefaulted ==
  (fcp_pc = "done" /\ ~fcp_caught.raised) =>
    \A k \in 1..Len(Returned) :
      /\ HasKey(Returned[k], Key.tenure)
      /\ DictGet(Returned[k], Key.tenure) \in
           {PyStr(<<"F", "r", "e", "e", "h", "o", "l", "d">>),
            PyStr(<<"L", "e", "a", "s", "e", "h", "o", "l", "d">>),
            PyStr(<<"U", "n", "k", "n", "o", "w", "n">>)}
      /\ Unsupplied(processed_src[k], Key.tenure) =>
           DictGet(Returned[k], Key.tenure) = PyStr(<<"U", "n", "k", "n", "o", "w", "n">>)

\* C16: every returned record has a facilities list with at least one
\* entry; when neither the search result nor the follow-up answer supplied
\* a non-empty facilities list, it is exactly ["Information not available"].
C16_FacilitiesPresent ==
  (fcp_pc = "done" /\ ~fcp_caught.raised) =>
    \A k \in 1..Len(Returned) :
      LET f == DictGet(Returned[k], Key.facilities)
      IN  /\ f.k = "list"
          /\ Len(f.e) >= 1
          /\ Unsupplied(processed_src[k], Key.facilities) =>
               f = PyList(<<PyStr(Lit.InfoNotAvailable)>>)

(***************************************************************************)
(* Claims about generate_final_recommendation.                             *)
(***************************************************************************)
\* C17: generate_final_recommendation returns the backend's text verbatim
\* when the response content is a string, and the literal "Could not
\* generate a recommendation." when the response has no content attribute
\* or its content is None or any other value that is not a string.
C17_NarrativeOrFallback ==
  gfr_pc = "done" =>
    gfr_result = IF response.k = "str" THEN response
                 ELSE PyStr(Lit.CouldNotGenerate)

\* C18: generate_final_recommendation never raises to its caller: no call
\* ends with an exception leaving the function, neither when main_agent.run
\* raises nor when json.dumps cannot encode an argument.
C18_NeverRaises == gfr_pc # "raised"

(***************************************************************************)
(* Claims about the application workflow.                                  *)
(***************************************************************************)
\* call i of the log was made after a process_property_url call returned
\* the record it was given as the reference property
AfterExtraction(i) ==
  \E j \in 1..(i - 1) :
    /\ invocations[j].fn = "process_property_url"
    /\ invocations[j].returned
    /\ invocations[j].result = invocations[i].arg

\* call i of the log directly follows a find_comparable_properties call of
\* the same script run that returned
AfterComparison(i) ==
  /\ i > 1
  /\ invocations[i - 1].fn = "find_comparable_properties"
  /\ invocations[i - 1].returned
  /\ invocations[i - 1].run = invocations[i].run

\* C19: after any sequence of button and sidebar actions, every call of
\* find_comparable_properties and of generate_final_recommendation is made
\* with a reference property that an earlier process_property_url call
\* returned, and every call of generate_final_recommendation follows a
\* find_comparable_properties call of the same request that returned.
C19_PipelineOrder ==
  \A i \in 1..Len(invocations) :
    /\ invocations[i].fn \in {"find_comparable_properties",
                              "generate_final_recommendation"}
         => AfterExtraction(i)
    /\ invocations[i].fn = "generate_final_recommendation" => AfterComparison(i)

(***************************************************************************)
(* Claims about the truncation of the crawl content.                       *)
(***************************************************************************)
\* the first min(len, MaxContentLen) characters of a text
Ceiled(text) == SubSeq(text, 1, Min({Len(text), MaxContentLen}))

\* the text the regex fallback scans in this state
ScannedText == FallbackText(Loaded(raw_response), formatted_response)

\* C20: when the crawl content is a string, the text embedded in the
\* format prompt and the text the regex fallback scans are both the first
\* min(len, 200000) characters of the crawl content, and so never longer
\* than 200000 characters.
C20_TruncatedBeforeUse ==
  crawl_content.k = "str" =>
    /\ Loaded(format_prompt).s = Ceiled(Loaded(crawl_content).s)
    /\ ScannedText = Ceiled(Loaded(crawl_content).s)
    /\ Len(Loaded(format_prompt).s) <= MaxContentLen
    /\ Len(ScannedText) <= MaxContentLen

\* a crawl content longer than the ceiling went through the format call
\* and the regex fallback, which did not see the title behind the ceiling
C20_Witness ==
  /\ ppu_pc = "done"
  /\ ~ppu_caught.raised
  /\ crawl_content.k = "str"
  /\ Len(Loaded(crawl_content).s) > MaxContentLen
  /\ ~ParseFormatted(formatted_response).ok
  /\ DictGet(ppu_result, Key.title) = PyStr(Lit.PropertyDetails)

\* C21: find_comparable_properties leaves a price_per_sqft that the search
\* result supplied as it was, and computes none for a record whose size is
\* zero or negative.
C21_DerivedOnlyWhenMissing ==
  (fcp_pc = "done" /\ ~fcp_caught.raised) =>
    \A k \in 1..Len(Returned) :
      LET src == candidates[processed_src[k]]
          size == DictGet(Returned[k], Key.size)
          supplied == DictGet(src, Key.price_per_sqft)
      IN  /\ Truthy(supplied) => DictGet(Returned[k], Key.price_per_sqft) = supplied
          /\ (IsNum(size) /\ size.n <= 0) =>
               DictGet(Returned[k], Key.price_per_sqft) = supplied

\* the detail fields a follow-up is there to supply
DetailFields ==
  {Key.size, Key.price_per_sqft, Key.tenure, Key.listing_type, Key.facilities}

\* the search result gave candidate i every detail field
Complete(i) ==
  /\ candidates[i].k = "dict"
  /\ \A key \in DetailFields : Truthy(DictGet(candidates[i], key))

\* C22: a follow-up call is made only for a candidate that lacks one of
\* size, price_per_sqft, tenure, listing_type, facilities; a candidate that
\* has them all is returned with its supplied values; and no candidate gets
\* more than one follow-up call.
C22_FollowUpOnlyForMissing ==
  /\ \A j \in 1..Len(followups) : ~Complete(followups[j].i)
  /\ \A j1, j2 \in 1..Len(followups) :
       followups[j1].i = followups[j2].i => j1 = j2
  /\ (fcp_pc = "done" /\ ~fcp_caught.raised) =>
       \A k \in 1..Len(Returned) :
         Complete(processed_src[k]) =>
           \A key \in DetailFields :
             DictGet(Returned[k], key) = DictGet(candidates[processed_src[k]], key)

\* agents.py:195-197: the reference's price with "RM" and "/mo" taken out
\* and stripped; a price that is no string stays as it is
reference_price ==
  LET price == DictGetOr(reference_property, Key.price, PyStr(<<>>))
  IN  IF price.k = "str"
      THEN PyStr(Strip(Replace(Replace(price.s, Lit.RM, <<>>), Lit.PerMo, <<>>)))
      ELSE price

\* agents.py:252-260: the text of the search prompt that carries p
SearchPromptText(p) ==
  <<"\n", " ", " ", " ", " ", "F", "i", "n", "d", " ">> \o TextOfNat(p.count)
    \o <<" ", "d", "i", "f", "f", "e", "r", "e", "n", "t", " ", "p", "r",
        "o", "p", "e", "r", "t", "y", " ", "l", "i", "s", "t", "i", "n",
        "g", "s", " ", "i", "n", " ">>
    \o str(p.location)
    \o <<" ", "s", "i", "m", "i", "l", "a", "r", " ", "t", "o", " ", "r",
        "e", "f", "e", "r", "e", "n", "c", "e", " ", "p", "r", "o", "p",
        "e", "r", "t", "y", " ", "\"">>
    \o str(p.reference_title)
    \o <<"\"", ".", "\n", " ", " ", " ", " ", "D", "O", " ", "N", "O", "T",
        " ", "i", "n", "c", "l", "u", "d", "e", " ", "t", "h", "e", " ",
        "r", "e", "f", "e", "r", "e", "n", "c", "e", " ", "p", "r", "o",
        "p", "e", "r", "t", "y", ".", "\n", " ", " ", " ", " ", "O", "n",
        "l", "y", " ", "r", "e", "t", "u", "r", "n", " ", "p", "r", "o",
        "p", "e", "r", "t", "i", "e", "s", " ", "w", "i", "t", "h", " ",
        "d", "i", "f", "f", "e", "r", "e", "n", "t", " ", "t", "i", "t",
        "l", "e", "s", ".", "\n", " ", " ", " ", " ", "B", "u", "d", "g",
        "e", "t", ":", " ", "R", "M", " ">>
    \o str(p.budget_min) \o <<"-">> \o str(p.budget_max)
    \o <<"\n", " ", " ", " ", " ", "\n", " ", " ", " ", " ", "R", "e", "t",
        "u", "r", "n", " ", "o", "n", "l", "y", " ", "t", "i", "t", "l",
        "e", ",", " ", "l", "o", "c", "a", "t", "i", "o", "n", ",", " ",
        "p", "r", "i", "c", "e", ",", " ", "a", "n", "d", " ", "f", "u",
        "l", "l", " ", "U", "R", "L", " ", "t", "o", " ", "t", "h", "e",
        " ", "p", "r", "o", "p", "e", "r", "t", "y", " ", "l", "i", "s",
        "t", "i", "n", "g", ".", "\n", " ", " ", " ", " ", "F", "o", "r",
        "m", "a", "t", " ", "a", "s", " ", "s", "i", "m", "p", "l", "e",
        " ", "J", "S", "O", "N", " ", "a", "r", "r", "a", "y", ".", "\n",
        " ", " ", " ", " ">>

\* C23: the search prompt sent to the backend carries the target count 2,
\* the reference's location, the reference's normalized price as the budget
\* ceiling, and the reference's URL and title to exclude.
C23_SearchPromptCarries ==
  (fcp_pc # "idle" /\ reference_property.k = "dict") =>
    LET text == SearchPromptText(search_prompt)
    IN  /\ Contains(text, <<"F", "i", "n", "d", " ", "2", " ">>)
        /\ Contains(text, str(DictGetOr(reference_property, Key.location, PyStr(Lit.KualaLumpur))))
        /\ Contains(text, str(reference_price))
        /\ Contains(text, str(reference_url))
        /\ Contains(text, str(reference_title))

\* the enrichment fields a follow-up writes onto a candidate
EnrichmentFields ==
  {Key.size, Key.price_numeric, Key.bedrooms, Key.tenure, Key.listing_type,
   Key.facilities}

\* the record the loop body makes of candidate i when its follow-up supplies
\* nothing
WithoutDetails(i) ==
  EnsureFacilities(
    InferListingType(DerivePricePerSqft(RewriteLink(candidates[i]).item)).item)

\* C24: a returned record whose own follow-up response had a content that
\* is neither a mapping nor a string carries, in every enrichment field,
\* what it has without any follow-up details: nothing decoded for an
\* earlier candidate is applied to it.
C24_OwnFollowUpOnly ==
  (fcp_pc = "done" /\ ~fcp_caught.raised) =>
    \A k \in 1..Len(Returned) :
      \A j \in 1..Len(followups) :
        (/\ followups[j].i = processed_src[k]
         /\ ~followups[j].out.raises
         /\ followups[j].out.content.k \notin {"dict", "str"}) =>
          \A key \in EnrichmentFields :
            DictGet(Returned[k], key) = DictGet(WithoutDetails(processed_src[k]), key)

View(s) ==
  IF ~s["api_keys_validated"] THEN "api_keys_input"
  ELSE CASE s["step"] = 1 -> "url_input_step"
         [] s["step"] = 2 -> "preferences_input_step"
         [] s["step"] = 3 -> "display_results_step"
         [] s["step"] = 4 -> "display_api_usage"
         [] OTHER -> "none"

StepViews ==
  {"url_input_step", "preferences_input_step", "display_results_step",
   "display_api_usage"}

\* C26: while api_keys_validated is false no step view is shown and no
\* pipeline function is called; Update API Keys leaves api_keys_validated
\* false, and from every step it is at most one sidebar click away.
C26_GatedByValidation ==
  /\ [](~session_state["api_keys_validated"] => View(session_state) \notin StepViews)
  /\ [][invocations' # invocations =>
          /\ session_state["api_keys_validated"]
          /\ session_state'["api_keys_validated"]
          /\ View(session_state) \in StepViews]_vars
  /\ [][app_UpdateKeys => ~session_state'["api_keys_validated"]]_vars
  /\ []((session_state["api_keys_validated"] /\ clicks < MaxClicks) =>
          IF session_state["step"] = 4 THEN ENABLED app_UpdateKeys
          ELSE ENABLED app_Navigate(4))

\* the keys were validated, pipeline calls were made, and Update API Keys
\* has taken the session back to the provider form
C26_Witness ==
  /\ ~session_state["api_keys_validated"]
  /\ session_state["agents_initialized"]
  /\ session_state["step"] = 4
  /\ Len(invocations) > 0

\* C27: whenever agents_initialized and api_keys_validated are true, the
\* session still holds the comparison agent and the main agent.
C27_AgentsPresent ==
  (session_state["agents_initialized"] /\ session_state["api_keys_validated"]) =>
    {"comparison_agent", "main_agent"} \subseteq DOMAIN session_state

\* C28: Start Over leaves the provider, its API key, the model and the
\* FireCrawl key that the next process_property_url call is given as they
\* were validated.
C28_CredentialsKept ==
  [][app_StartOver =>
       ExtractCredentials(session_state') = ExtractCredentials(session_state)]_vars

\* C29: Analyze Property stores the extracted record as reference_property
\* and goes from step 1 to step 2 exactly when process_property_url
\* returned a mapping with the key title, and never for a record that
\* carries the key error.
C29_AdvanceOnTitle ==
  [][(/\ Len(invocations') = Len(invocations) + 1
      /\ invocations'[Len(invocations')].fn = "process_property_url") =>
       LET record == invocations'[Len(invocations')].result
           advanced == /\ session_state'["step"] = 2
                       /\ session_state'["reference_property"] = record
           stayed == /\ session_state'["step"] = 1
                     /\ session_state'["reference_property"]
                          = session_state["reference_property"]
       IN  /\ session_state["step"] = 1
           /\ IF record.k = "dict" /\ HasKey(record, Key.title)
              THEN advanced ELSE stayed
           /\ (record.k = "dict" /\ HasKey(record, Key.error)) => stayed]_vars

\* the calls of generate_final_recommendation that returned, by their place
\* in the log
Narrated ==
  {i \in 1..Len(invocations) :
     /\ invocations[i].fn = "generate_final_recommendation"
     /\ invocations[i].returned}

\* C30: a recommendation held in the session is the result of the latest
\* generate_final_recommendation call that returned, and that call was
\* given the comparable_properties and user_preferences the session holds.
C30_RecommendationCurrent ==
  Truthy(session_state["recommendation"]) =>
    /\ Narrated # {}
    /\ LET last == invocations[CHOOSE i \in Narrated : \A j \in Narrated : j <= i]
       IN  /\ last.result = session_state["recommendation"]
           /\ last.comparable_properties = session_state["comparable_properties"]
           /\ last.user_preferences = session_state["user_preferences"]

=============================================================================
